---- MODULE Spec2Model ----
(***************************************************************************)
(* Pharmacy-Pickup: the medication location lookup                         *)
(* (python_server/medication_location_lookup.py) and the floor-stock       *)
(* pick-list parser (python_server/floor_stock_parser.py) as state         *)
(* machines.  Python str values are TLA+ strings handled character by      *)
(* character (Len, SubSeq, Head, Tail, \o); Python lists are sequences;    *)
(* dicts are sequences of <<key, value>> pairs in the lookup and records   *)
(* in the parser; None is the empty tuple.                                 *)
(***************************************************************************)
EXTENDS Integers, Sequences, FiniteSets, TLC

VARIABLES
    \* ---- MedicationLocationLookup ----
    phase,          \* "loading" (inside __init__/_load_locations) or "ready"
    rows,           \* the csv rows read by _load_locations so far, in file order
    location_db,    \* self.location_db : normalized name -> <<code, desc>>
    search_index,   \* self._search_index : bucket key -> list of normalized names
    sorted_index,   \* self._sorted_index : sorted-word key -> normalized name
    args,           \* arguments of the last find_location call, <<>> before the first
    returned,       \* its return value: None or <<location_code, location_desc>>
    via,            \* which return statement of find_location produced it
    cache,          \* the lru_cache of find_location : arguments -> return value
    \* ---- FloorStockParser ----
    api_key,        \* whether self.api_key is set
    use_llm_verification,  \* self.use_llm_verification
    parses,         \* the number of calls of parse so far
    page_text,      \* the text argument of the last call of parse
    page_annotations,  \* its word_annotations argument, <<>> for None
    row_replies,    \* what the LLM answered to the row clustering of the call
    groq_reply,     \* what the LLM answered to _parse_with_groq, None if nothing
    strategy,       \* which strategy of parse produced what it returned
    found_medications,  \* the local `medications` of parse when the strategy is done
    validated_records,  \* the local `validated_medications` of parse, <<>> if not reached
    raised,         \* whether the call ended in an exception
    parsed,         \* the medications the call returned
    \* ---- docling_server.parse_documents_parallel ----
    images,         \* len(images) of the request
    task,           \* per image: "new", "queued", "running" or "finished"
    futures,        \* per image: what its future holds, None until it finished
    results,        \* the results appended so far, in the order the tasks completed
    completed,      \* the index of each round of the loop over as_completed so far
    pc,             \* where the request thread is: "submit", "collect", "done", "failed"
    deduplicated,   \* the merged medications of the response
    status,         \* the HTTP status of the response, 0 before it
    \* ---- a second call of parse with the arguments of the first ----
    reruns,         \* the number of second calls so far
    reparsed,       \* the medications the second call returned
    reraised,       \* whether the second call ended in an exception
    \* ---- one step of the extraction applied to an input ----
    method,         \* the method that was called, "none" before the call
    method_arg,     \* its argument
    method_result,  \* what it returned
    \* ---- the line scan of _parse_bd_table_enhanced, one line at a time ----
    scan_lines,     \* text.split('\n') of the scanned text
    scan_i,         \* how many lines the while loop has consumed
    scan_st,        \* the local variables of the scan
    scan_out,       \* what the scan returned, None while it runs
    \* ---- medication_location_lookup.get_location_lookup and its callers ----
    preload,        \* the preload of __main__: "none", "pending" or "done"
    _global_lookup, \* the module global: None or <<k>>, the k-th instance
    instances,      \* per MedicationLocationLookup() call: "filling" or "ready"
    caller,         \* per caller of get_location_lookup: where it is
    constructing,   \* per caller: the instance its constructor call is building, 0 if none
    got             \* per caller: what it returned and whether the tables were filled then

lookupVars == <<phase, rows, location_db, search_index, sorted_index,
                args, returned, via, cache>>
parserVars == <<api_key, use_llm_verification, parses, page_text, page_annotations,
                row_replies, groq_reply, strategy, found_medications, validated_records,
                raised, parsed>>
batchVars == <<images, task, futures, results, completed, pc, deduplicated, status>>
rerunVars == <<reruns, reparsed, reraised>>
stepVars == <<method, method_arg, method_result>>
scanVars == <<scan_lines, scan_i, scan_st, scan_out>>
singletonVars == <<preload, _global_lookup, instances, caller, constructing, got>>
laterVars == <<rerunVars, stepVars, scanVars, singletonVars>>
vars == <<lookupVars, parserVars, batchVars, laterVars>>

(***************************************************************************)
(* Python str primitives.  Operators receive the values they branch on as  *)
(* arguments, and each string is compared with "" on entry, so that TLC    *)
(* evaluates a pipeline of string operations stage by stage.               *)
(***************************************************************************)
Digits == "0123456789"
UpperLetters == "ABCDEFGHIJKLMNOPQRSTUVWXYZ"
LowerLetters == "abcdefghijklmnopqrstuvwxyz"
\* The characters the model's strings are made of, in code-point order
\* (Python orders str by code point).
CodePoints == "\n %(),-./0123456789:ABCDEFGHIJKLMNOPQRSTUVWXYZ_abcdefghijklmnopqrstuvwxyz|"
Whitespace == {" ", "\n"}

CharAt(s, i) == SubSeq(s, i, i)
CharsOf(s) == {CharAt(s, i) : i \in 1..Len(s)}
DigitChars == CharsOf(Digits)
UpperChars == CharsOf(UpperLetters)
LowerChars == CharsOf(LowerLetters)
LetterChars == UpperChars \cup LowerChars
WordChars == LetterChars \cup DigitChars \cup {"_"}
AllChars == CharsOf(CodePoints)

IndexIn(alphabet, c) == CHOOSE i \in 1..Len(alphabet) : CharAt(alphabet, i) = c
Ord == [c \in AllChars |-> IndexIn(CodePoints, c)]
ToUpper == [c \in AllChars |->
              IF c \in LowerChars THEN CharAt(UpperLetters, IndexIn(LowerLetters, c)) ELSE c]
ToLower == [c \in AllChars |->
              IF c \in UpperChars THEN CharAt(LowerLetters, IndexIn(UpperLetters, c)) ELSE c]

Min(S) == CHOOSE m \in S : \A o \in S : m <= o
Max(S) == CHOOSE m \in S : \A o \in S : m >= o
\* the least index of a set of indices, 0 if there is none
First(S) == IF S = {} THEN 0 ELSE Min(S)
Last(S) == IF S = {} THEN 0 ELSE Max(S)
Range(f) == {f[i] : i \in DOMAIN f}

\* Character-wise translation of s by table, by halves.
RECURSIVE MapChars(_, _)
MapChars(s, table) ==
    IF Len(s) = 0 THEN ""
    ELSE IF Len(s) = 1 THEN table[s]
    ELSE MapChars(SubSeq(s, 1, Len(s) \div 2), table)
         \o MapChars(SubSeq(s, Len(s) \div 2 + 1, Len(s)), table)

upper(s) == MapChars(s, ToUpper)
lower(s) == MapChars(s, ToLower)

\* s[n:]
Drop(s, n) == SubSeq(s, n + 1, Len(s))
StartsWith(s, p) == Len(p) <= Len(s) /\ SubSeq(s, 1, Len(p)) = p
EndsWith(s, p) == Len(p) <= Len(s) /\ SubSeq(s, Len(s) - Len(p) + 1, Len(s)) = p
StartsAt(s, i, p) == i + Len(p) - 1 <= Len(s) /\ SubSeq(s, i, i + Len(p) - 1) = p

\* p in s
Contains(s, p) == \E i \in 1..(Len(s) - Len(p) + 1) : SubSeq(s, i, i + Len(p) - 1) = p

\* s.find(old, i): the first index >= i where old occurs in s, 0 if none
FindFrom(s, old, i) ==
    First({j \in i..(Len(s) - Len(old) + 1) : SubSeq(s, j, j + Len(old) - 1) = old})

\* s.replace(old, new), old non-empty: non-overlapping, left to right; j is
\* the next occurrence of old at or after i
RECURSIVE ReplaceFrom(_, _, _, _)
RECURSIVE ReplaceAt(_, _, _, _, _)
ReplaceAt(s, i, j, old, new) ==
    IF j = 0 THEN SubSeq(s, i, Len(s))
    ELSE SubSeq(s, i, j - 1) \o new \o ReplaceFrom(s, j + Len(old), old, new)

ReplaceFrom(s, i, old, new) == ReplaceAt(s, i, FindFrom(s, old, i), old, new)

replace(s, old, new) == IF s = "" THEN "" ELSE ReplaceFrom(s, 1, old, new)

\* s.isdigit()
isdigit(s) == s # "" /\ \A i \in 1..Len(s) : CharAt(s, i) \in DigitChars

\* the indices of the characters of s that are not whitespace
InkAt(s) == {i \in 1..Len(s) : CharAt(s, i) \notin Whitespace}

Between(s, b, e) == IF b = 0 THEN "" ELSE SubSeq(s, b, e)
lstrip(s) == IF s = "" THEN "" ELSE Between(s, First(InkAt(s)), Len(s))
rstrip(s) == IF s = "" THEN "" ELSE Between(s, 1, Last(InkAt(s)))
strip(s) == rstrip(lstrip(s))

\* s.split(): split on runs of whitespace, no empty strings; b is the start
\* of the next word at or after i
RECURSIVE SplitFrom(_, _)
RECURSIVE SplitAt(_, _, _)
SplitAt(s, b, e) == <<SubSeq(s, b, e - 1)>> \o SplitFrom(s, e)

SplitFrom(s, i) ==
    IF {j \in i..Len(s) : CharAt(s, j) \notin Whitespace} = {} THEN <<>>
    ELSE SplitAt(s, Min({j \in i..Len(s) : CharAt(s, j) \notin Whitespace}),
                 Min({j \in i..(Len(s) + 1) :
                        /\ j = Len(s) + 1 \/ CharAt(s, j) \in Whitespace
                        /\ \E b \in i..(j - 1) : CharAt(s, b) \notin Whitespace}))

split(s) == IF s = "" THEN <<>> ELSE SplitFrom(s, 1)

\* s.splitlines() for text whose only line break is "\n"
RECURSIVE LinesFrom(_, _)
RECURSIVE LinesAt(_, _, _)
LinesAt(s, i, j) ==
    IF j = 0 THEN <<SubSeq(s, i, Len(s))>>
    ELSE <<SubSeq(s, i, j - 1)>> \o LinesFrom(s, j + 1)

LinesFrom(s, i) == IF i > Len(s) THEN <<>> ELSE LinesAt(s, i, FindFrom(s, "\n", i))

splitlines(s) == IF s = "" THEN <<>> ELSE LinesFrom(s, 1)

\* sep.join(ws)
RECURSIVE join(_, _)
join(ws, sep) ==
    IF ws = <<>> THEN ""
    ELSE IF Len(ws) = 1 THEN ws[1]
    ELSE ws[1] \o sep \o join(Tail(ws), sep)

\* a < b on str
FirstDiffers(a, b, i) ==
    IF i = 0 THEN Len(a) < Len(b) ELSE Ord[CharAt(a, i)] < Ord[CharAt(b, i)]
StrLess(a, b) ==
    FirstDiffers(a, b, First({i \in 1..Min({Len(a), Len(b)}) : CharAt(a, i) # CharAt(b, i)}))

\* sorted(list(set(...))) of a set of str
RECURSIVE SortedOfSet(_)
RECURSIVE SortedFrom(_, _)
SortedFrom(S, least) == <<least>> \o SortedOfSet(S \ {least})
SortedOfSet(S) ==
    IF S = {} THEN <<>>
    ELSE SortedFrom(S, CHOOSE u \in S : \A o \in S \ {u} : StrLess(u, o))

\* sorted(ws) of a list of str (duplicates kept)
RECURSIVE sorted(_)
RECURSIVE SortedTaking(_, _)
SortedTaking(ws, m) ==
    <<ws[m]>> \o sorted(SubSeq(ws, 1, m - 1) \o SubSeq(ws, m + 1, Len(ws)))
sorted(ws) ==
    IF ws = <<>> THEN <<>>
    ELSE SortedTaking(ws, CHOOSE i \in 1..Len(ws) : \A j \in 1..Len(ws) : ~StrLess(ws[j], ws[i]))

(***************************************************************************)
(* The regular expressions of the source, as far as they are used: a       *)
(* pattern is a list of alternatives, each a sequence of literals, \b,     *)
(* \s+, \s*, \d+ and [^..]*.  In every pattern of the source such a        *)
(* repetition is followed by something that its characters cannot start,   *)
(* so the greedy match needs no backtracking.                              *)
(***************************************************************************)
Lit(x) == <<"lit", x>>
WB == <<"b">>
SPlus == <<"s+">>
SStar == <<"s*">>
NotStar(excluded) == <<"not*", excluded>>     \* [^...]*
DigitPlus == <<"d+">>                         \* \d+
Word(w) == <<WB, Lit(w), WB>>                 \* \bw\b

IsWordAt(s, i) == i >= 1 /\ i <= Len(s) /\ CharAt(s, i) \in WordChars

\* The index after the longest run of characters of `chars` that starts at i.
SkipIn(s, i, chars) ==
    Min({j \in i..(Len(s) + 1) : j = Len(s) + 1 \/ CharAt(s, j) \notin chars})

\* a repetition that must take at least one character
AtLeastOne(i, j) == IF j > i THEN j ELSE 0

\* The index after the match of pattern element e at index i of s; 0 if none.
Advance(s, i, e) ==
    IF e[1] = "lit" THEN (IF StartsAt(s, i, e[2]) THEN i + Len(e[2]) ELSE 0)
    ELSE IF e[1] = "b" THEN (IF IsWordAt(s, i - 1) # IsWordAt(s, i) THEN i ELSE 0)
    ELSE IF e[1] = "s+" THEN AtLeastOne(i, SkipIn(s, i, Whitespace))
    ELSE IF e[1] = "d+" THEN AtLeastOne(i, SkipIn(s, i, DigitChars))
    ELSE IF e[1] = "not*" THEN SkipIn(s, i, AllChars \ e[2])
    ELSE SkipIn(s, i, Whitespace)

\* The index after the match of pat that starts at index i of s; 0 if none.
RECURSIVE MatchEnd(_, _, _)
MatchEnd(s, i, pat) ==
    IF i = 0 \/ pat = <<>> THEN i
    ELSE MatchEnd(s, Advance(s, i, Head(pat)), Tail(pat))

\* The first alternative of alts that matches at i decides (regex alternation).
FirstMatching(ends) ==
    IF \A k \in DOMAIN ends : ends[k] = 0 THEN 0
    ELSE ends[Min({k \in DOMAIN ends : ends[k] > 0})]

MatchEndAlt(s, i, alts) == FirstMatching([k \in 1..Len(alts) |-> MatchEnd(s, i, alts[k])])

\* The first index >= i where one of alts matches (non-empty), 0 if none.
SearchFrom(s, i, alts) == First({j \in i..Len(s) : MatchEndAlt(s, j, alts) > j})

\* re.sub(alts, repl, s); j is the start of the next match at or after i
RECURSIVE SubFrom(_, _, _, _)
RECURSIVE SubAt(_, _, _, _, _)
SubAt(s, i, j, alts, repl) ==
    IF j = 0 THEN SubSeq(s, i, Len(s))
    ELSE SubSeq(s, i, j - 1) \o repl \o SubFrom(s, MatchEndAlt(s, j, alts), alts, repl)

SubFrom(s, i, alts, repl) == SubAt(s, i, SearchFrom(s, i, alts), alts, repl)

re_sub(alts, repl, s) == IF s = "" THEN "" ELSE SubFrom(s, 1, alts, repl)

\* re.findall(alts, s) for a pattern without groups
RECURSIVE FindAllFrom(_, _, _)
RECURSIVE FindAllAt(_, _, _, _)
FindAllAt(s, j, e, alts) == <<SubSeq(s, j, e - 1)>> \o FindAllFrom(s, e, alts)

FindAllFrom(s, i, alts) ==
    IF SearchFrom(s, i, alts) = 0 THEN <<>>
    ELSE FindAllAt(s, SearchFrom(s, i, alts),
                   MatchEndAlt(s, SearchFrom(s, i, alts), alts), alts)

re_findall(alts, s) == IF s = "" THEN <<>> ELSE FindAllFrom(s, 1, alts)

\* re.search(alts, s) is not None
re_search(alts, s) == \E i \in 1..(Len(s) + 1) : MatchEndAlt(s, i, alts) > 0

\* re.match(alts + '$', s) is not None
re_fullmatch(alts, s) == \E k \in 1..Len(alts) : MatchEnd(s, 1, alts[k]) = Len(s) + 1

(***************************************************************************)
(* MedicationLocationLookup: keys and normalization                        *)
(***************************************************************************)
ignore_words ==
    {"MG", "MCG", "ML", "G", "L", "OZ", "MEQ", "UNITS", "UNIT", "%",
     "TABLET", "CAPSULE", "VIAL", "INJ", "SOLN", "SOLUTION",
     "SYRUP", "LIQUID", "SUSP", "SUSPENSION", "ELIXIR", "DROPS", "SPRAY",
     "CREAM", "OINTMENT", "GEL", "LOTION", "FOAM", "PATCH", "PAD", "KIT", "CUP",
     "BAG", "BOTTLE", "MINIBAG", "IVPB", "ADD-EASE", "ADDEASE", "INFUSION",
     "RINSE", "MOUTHWASH", "UD", "ISO-OSMOTIC", "ISO", "OSMOTIC", "PYXIS", "OSM",
     "PUMP", "INHALER", "NEBULIZER", "AMPUL", "CARTRIDGE", "SYRINGE", "PEN", "CREON",
     "DELAYED", "RELEASE", "EXTENDED", "ER", "DR", "IR", "SR", "CR", "XL", "REL",
     "HCL", "SODIUM", "POTASSIUM", "CHLORIDE", "SULFATE", "TARTRATE", "GLUCONATE", "ACETATE",
     "ORAL", "TOPICAL", "INTRAVENOUS", "OPHTHALMIC", "OTIC", "NASAL",
     "IN", "AND", "WITH", "FOR", "OF", "AS", "IV", "IM", "PO", "PR", "SL", "TO"}

\* w.replace('.', '').isdigit()
IsNumericToken(w) == isdigit(replace(w, ".", ""))
NotNumericToken(w) == ~IsNumericToken(w)

\* the list `significant` of _get_sorted_words_key
IsSignificant(w) ==
    \/ Len(w) > 1 /\ w \notin ignore_words
    \/ ~(Len(w) > 1 /\ w \notin ignore_words) /\ IsNumericToken(w) /\ w \notin ignore_words

KeyWords(s) ==
    split(replace(replace(replace(replace(s, "/", " "), "-", " "), "(", " "), ")", " "))

\* the significant words joined as they come, neither sorted nor deduplicated
KeyOfUnsorted(significant) == join(significant, " ")

\* ' '.join(final_nums + final_words_list)
KeyOf(significant) ==
    join(SortedOfSet({w \in Range(significant) : IsNumericToken(w)})
         \o SortedOfSet({w \in Range(significant) : ~IsNumericToken(w)}), " ")

_get_sorted_words_key(s) == KeyOf(SelectSeq(KeyWords(s), IsSignificant))

\* A step of a text pipeline: name = name.replace(old, new), or
\* name = re.sub(alts, repl, name), or one of the named steps below.
Replace(old, new) == <<"replace", old, new>>
Sub(alts, repl) == <<"sub", alts, repl>>

\* The argument is upper case already (the only caller upper-cases first), so
\* `brand in upper_name` is `brand in name` and re.IGNORECASE changes nothing.
brand_mappings ==
    << Replace("ROBITUSSIN DM", "DEXTROMETHORPHAN-GUAIFENESIN"),
       Replace("ROBITUSSIN", "GUAIFENESIN"),
       Replace("MUCINEX", "GUAIFENESIN"),
       Replace("MEROPENEUM", "MEROPENEM"),
       Replace("PERIDEX", "CHLORHEXIDINE 0.12 %") >>

abbreviations ==
    << Sub(<< <<WB, Lit("IN"), SPlus, Lit("0.9"), SStar, Lit("%"), SStar, Lit("NACL"), WB>> >>,
           "IN NORMAL SALINE"),
       Sub(<< <<WB, Lit("IN"), SPlus, Lit("0.9"), SStar, Lit("%"), SStar, Lit("SODIUM"), SPlus,
                Lit("CHLORIDE"), WB>> >>, "IN NORMAL SALINE"),
       Sub(<< <<WB, Lit("0.9"), SStar, Lit("%"), SStar, Lit("NACL"), WB>> >>, "NORMAL SALINE"),
       Sub(<< <<WB, Lit("0.9"), SStar, Lit("%"), SStar, Lit("SODIUM"), SPlus, Lit("CHLORIDE"),
                WB>> >>, "NORMAL SALINE"),
       Sub(<< <<WB, Lit("IN"), SPlus, Lit("NS"), WB>> >>, "IN NORMAL SALINE"),
       Sub(<< <<WB, Lit("IN"), SPlus, Lit("D5W"), WB>> >>, "IN DEXTROSE"),
       Sub(<< <<WB, Lit("IN"), SPlus, Lit("D10W"), WB>> >>, "IN DEXTROSE 10%"),
       Sub(<< <<WB, Lit("IN"), SPlus, Lit("LR"), WB>> >>, "IN LACTATED RINGERS"),
       Sub(<<Word("NS")>>, "NORMAL SALINE"),
       Sub(<<Word("D5W")>>, "DEXTROSE"),
       Sub(<<Word("D10W")>>, "DEXTROSE 10%"),
       Sub(<<Word("LR")>>, "LACTATED RINGERS"),
       Sub(<<Word("NACL")>>, "SODIUM CHLORIDE"),
       Sub(<<Word("IVPB")>>, "IV PIGGYBACK") >>

salt_names ==
    {"BITARTRATE", "HYDROCHLORIDE", "SODIUM", "POTASSIUM",
     "CALCIUM", "SULFATE", "ACETATE", "TARTRATE", "MALEATE",
     "FUMARATE", "SUCCINATE", "PHOSPHATE", "CITRATE", "MESYLATE",
     "BESYLATE", "HCL", "PORCINE", "RECOMBINANT"}

NotSalt(w) == w \notin salt_names

_remove_salt_names(name) == join(SelectSeq(split(name), NotSalt), " ")

\* re.sub(r'\([^()\d]*\)', '', name)
ParenNoDigit == << <<Lit("("), NotStar({"(", ")"} \cup DigitChars), Lit(")")>> >>

\* The while loop of _normalize_medication_name over parentheses; stripped is
\* the name after one round of removals.
RECURSIVE ParenLoop(_, _)
RECURSIVE ParenRound(_, _, _)
ParenRound(name, stripped, iteration) ==
    IF stripped = name
    THEN replace(replace(name, "(", " "), ")", " ")
    ELSE ParenLoop(stripped, iteration + 1)

ParenLoop(name, iteration) ==
    IF Contains(name, "(") /\ Contains(name, ")") /\ iteration < 5
    THEN ParenRound(name, replace(re_sub(ParenNoDigit, "", name), "()", ""), iteration)
    ELSE name

\* re.sub(r'(\d)([A-Z])', r'\1 \2', name); j is the next digit that a
\* capital letter follows
RECURSIVE SeparateFrom(_, _)
RECURSIVE SeparateAt(_, _, _)
SeparateAt(s, i, j) ==
    IF j = 0 THEN SubSeq(s, i, Len(s))
    ELSE SubSeq(s, i, j) \o " " \o SeparateFrom(s, j + 1)

SeparateFrom(s, i) ==
    SeparateAt(s, i, First({j \in i..(Len(s) - 1) :
                              CharAt(s, j) \in DigitChars /\ CharAt(s, j + 1) \in UpperChars}))

SeparateDigitLetter(s) == IF s = "" THEN "" ELSE SeparateFrom(s, 1)

\* one step of a pipeline, and the pipeline from step i on
RECURSIVE Pipeline(_, _, _)
Step(s, step) ==
    IF step[1] = "replace" THEN replace(s, step[2], step[3])
    ELSE IF step[1] = "sub" THEN re_sub(step[2], step[3], s)
    ELSE IF step[1] = "steps" THEN Pipeline(s, step[2], 1)
    ELSE IF step[1] = "parens" THEN ParenLoop(s, 0)
    ELSE SeparateDigitLetter(s)

Pipeline(s, steps, i) ==
    IF s = "" \/ i > Len(steps) THEN s
    ELSE Pipeline(Step(s, steps[i]), steps, i + 1)

_expand_abbreviations(name) == Pipeline(name, brand_mappings \o abbreviations, 1)

BagVolumes ==
    << <<WB, Lit("50"), SStar, Lit("ML"), WB>>, <<WB, Lit("100"), SStar, Lit("ML"), WB>>,
       <<WB, Lit("200"), SStar, Lit("ML"), WB>>, <<WB, Lit("250"), SStar, Lit("ML"), WB>>,
       <<WB, Lit("500"), SStar, Lit("ML"), WB>>, <<WB, Lit("1000"), SStar, Lit("ML"), WB>> >>

\* the statements of _normalize_medication_name after name.upper(), in order
NormalizeSteps ==
    << <<"steps", brand_mappings \o abbreviations>>,       \* self._expand_abbreviations
       Replace("SODIUM CHLORIDE", "NORMAL SALINE"),
       Replace(" NS ", " NORMAL SALINE "),
       Replace(" RINSE ", " MOUTHWASH "),
       <<"parens">>,
       Replace("(", " "), Replace(")", " "),
       Replace("INTRAVENOUS", ""), Replace("ORAL", ""), Replace("TOPICAL", ""),
       Replace("OPHTHALMIC", ""), Replace("RECTAL", ""), Replace("VAGINAL", ""),
       Replace("NASAL", ""), Replace("OTIC", ""), Replace("PIGGYBACK", ""),
       Replace("NOREPHINEPHRINE", "NOREPINEPHRINE"),
       Sub(<<Word("D5W")>>, "DEXTROSE"),
       Replace(" IN DSW ", " IN DEXTROSE "), Replace(" DSW ", " DEXTROSE "),
       Replace(" D5W ", " DEXTROSE "), Replace("%", ""), Replace(",", ""),
       Replace("ISO-OSMOTIC", ""), Replace("ISO OSMOTIC", ""),
       Sub(<<Word("0.9")>>, ""),
       Sub(<< <<WB, Lit("15"), SStar, Lit("ML"), WB>> >>, ""),
       Sub(BagVolumes, ""),
       <<"separate">>,
       Sub(<<Word("GRAMS"), Word("GRAM")>>, "G"),
       Sub(<<Word("GMS"), Word("GM")>>, "G"),
       Sub(<<Word("GM")>>, "G"),
       Sub(<<Word("MILLIGRAMS"), Word("MILLIGRAM")>>, "MG"),
       Sub(<<Word("MICROGRAMS"), Word("MICROGRAM")>>, "MCG"),
       Sub(<<Word("MILLILITERS"), Word("MILLILITER")>>, "ML"),
       Sub(<<Word("UNITS"), Word("UNIT")>>, "UNITS"),
       Sub(<<Word("MEQ")>>, "MEQ") >>

\* self._normalization_cache is read but never written: every call computes.
_normalize_medication_name(name) ==
    IF name = "" THEN "" ELSE join(split(Pipeline(upper(name), NormalizeSteps, 1)), " ")

\* re.findall(r'\d+(?:\.\d+)?\s*(?:MG|G|ML|MCG|UNITS|MEQ|%|MG/ML)', text, re.IGNORECASE)
\* on upper-cased text (the result is upper-cased anyway): the alternatives
\* with the optional decimals first, the units in the order of the source.
StrengthUnits == <<"MG", "G", "ML", "MCG", "UNITS", "MEQ", "%", "MG/ML">>
StrengthPattern ==
    [k \in 1..Len(StrengthUnits) |->
        <<DigitPlus, Lit("."), DigitPlus, SStar, Lit(StrengthUnits[k])>>]
    \o [k \in 1..Len(StrengthUnits) |-> <<DigitPlus, SStar, Lit(StrengthUnits[k])>>]

_extract_strength(text) == join(re_findall(StrengthPattern, upper(text)), " ")

(***************************************************************************)
(* Python dict (insertion-ordered) as a sequence of <<key, value>> pairs   *)
(***************************************************************************)
DictHas(d, k) == \E i \in 1..Len(d) : d[i][1] = k
DictGet(d, k) == d[CHOOSE i \in 1..Len(d) : d[i][1] = k][2]
\* an assignment that keeps the value a key already has
DictSetKeepingFirst(d, k, v) ==
    IF DictHas(d, k) THEN d ELSE Append(d, <<k, v>>)
DictSet(d, k, v) ==
    IF DictHas(d, k) THEN [i \in 1..Len(d) |-> IF d[i][1] = k THEN <<k, v>> ELSE d[i]]
    ELSE Append(d, <<k, v>>)
DictKeys(d) == [i \in 1..Len(d) |-> d[i][1]]
\* d.get(k, default)
DictGetOr(d, k, default) == IF DictHas(d, k) THEN DictGet(d, k) ELSE default

None == <<>>

(***************************************************************************)
(* difflib.SequenceMatcher(None, a, b).ratio() as an exact fraction        *)
(* <<numerator, denominator>>.  Without junk (isjunk is None, and autojunk *)
(* needs len(b) >= 200) find_longest_match returns the longest common      *)
(* block, the one starting earliest in a and then earliest in b.  Index    *)
(* ranges are [lo, hi) over 1-based positions.                             *)
(***************************************************************************)
RunLength(a, i, ahi, b, j, bhi) ==
    Min({d \in 0..Min({ahi - i, bhi - j}) :
           d = Min({ahi - i, bhi - j}) \/ CharAt(a, i + d) # CharAt(b, j + d)})

\* the block <<i, j, k>> among the common runs <<i, j, length>>
Earliest(blocks) ==
    CHOOSE m \in blocks : \A o \in blocks : m[1] < o[1] \/ (m[1] = o[1] /\ m[2] <= o[2])

Longest(runs, k) == Earliest({m \in runs : m[3] = k})

LongestRun(runs, alo, blo) ==
    IF runs = {} THEN <<alo, blo, 0>> ELSE Longest(runs, Max({m[3] : m \in runs}))

find_longest_match(a, alo, ahi, b, blo, bhi) ==
    LongestRun({<<p[1], p[2], RunLength(a, p[1], ahi, b, p[2], bhi)>> :
                  p \in {q \in (alo..(ahi - 1)) \X (blo..(bhi - 1)) :
                           CharAt(a, q[1]) = CharAt(b, q[2])}}, alo, blo)

\* the sum of the sizes of get_matching_blocks(); m is the longest block
RECURSIVE MatchingSize(_, _, _, _, _, _)
RECURSIVE MatchingAround(_, _, _, _, _, _, _)
MatchingAround(m, a, alo, ahi, b, blo, bhi) ==
    IF m[3] = 0 THEN 0
    ELSE m[3]
         + (IF alo < m[1] /\ blo < m[2] THEN MatchingSize(a, alo, m[1], b, blo, m[2]) ELSE 0)
         + (IF m[1] + m[3] < ahi /\ m[2] + m[3] < bhi
            THEN MatchingSize(a, m[1] + m[3], ahi, b, m[2] + m[3], bhi) ELSE 0)

MatchingSize(a, alo, ahi, b, blo, bhi) ==
    MatchingAround(find_longest_match(a, alo, ahi, b, blo, bhi), a, alo, ahi, b, blo, bhi)

ratio(a, b) ==
    IF Len(a) + Len(b) = 0 THEN <<1, 1>>
    ELSE <<2 * MatchingSize(a, 1, Len(a) + 1, b, 1, Len(b) + 1), Len(a) + Len(b)>>

\* Scores are fractions <<n, d>> with d > 0.
Less(x, y) == x[1] * y[2] < y[1] * x[2]
MaxScore(x, y) == IF Less(x, y) THEN y ELSE x
Zero == <<0, 1>>

(***************************************************************************)
(* MedicationLocationLookup: index and fuzzy matching                      *)
(***************************************************************************)
AppendTo(idx, key, normalized_name) ==
    DictSet(idx, key, Append(DictGetOr(idx, key, <<>>), normalized_name))

IndexFirstWord(idx, words, normalized_name) ==
    IF words # <<>> /\ Len(words[1]) > 1
    THEN AppendTo(idx, "W:" \o words[1], normalized_name)
    ELSE idx

\* _add_to_index on the dict idx; returns the updated dict
_add_to_index(idx, normalized_name) ==
    IF normalized_name = "" THEN idx
    ELSE IndexFirstWord(AppendTo(idx, CharAt(normalized_name, 1), normalized_name),
                        split(normalized_name), normalized_name)

FuzzyBonus == <<17, 20>>      \* score4 = 0.85

\* candidates after the "First Letter" bucket is added to the "First Word" one
WithLetterBucket(byWord, byLetter) ==
    IF Len(byWord) < 50
    THEN byWord \o SelectSeq(byLetter, LAMBDA cand : cand \notin Range(byWord))
    ELSE byWord

AllIfEmpty(candidates, db) == IF candidates = <<>> THEN DictKeys(db) ELSE candidates

\* the candidates list of _fuzzy_match
FuzzyCandidates(db, idx, query_first_word) ==
    AllIfEmpty(WithLetterBucket(DictGetOr(idx, "W:" \o query_first_word, <<>>),
                                DictGetOr(idx, CharAt(query_first_word, 1), <<>>)), db)

\* weighted_score = (base_score * 0.6) + (strength_score * 0.4)
Weigh(base_score, strength_score) ==
    <<6 * base_score[1] * strength_score[2] + 4 * strength_score[1] * base_score[2],
      10 * base_score[2] * strength_score[2]>>

WeighIf(query_strength, db_strength, base_score) ==
    IF query_strength # "" /\ db_strength # ""
    THEN Weigh(base_score, ratio(query_strength, db_strength))
    ELSE base_score

BaseScore(query, query_no_salt, db_name, db_name_no_salt) ==
    MaxScore(MaxScore(ratio(query, db_name), ratio(query_no_salt, db_name_no_salt)),
             IF Contains(db_name, query) \/ Contains(db_name_no_salt, query_no_salt)
             THEN FuzzyBonus ELSE Zero)

\* weighted_score of one candidate in the loop of _fuzzy_match
WeightedScore(query, db_name) ==
    WeighIf(_extract_strength(query), _extract_strength(db_name),
            BaseScore(query, _remove_salt_names(query), db_name, _remove_salt_names(db_name)))

(***************************************************************************)
(* The inputs of the lookup model, and the values of its two costly pure   *)
(* functions on them, computed once.                                       *)
(***************************************************************************)
MaxRows == 2          \* rows in the csv file
MaxCalls == 1         \* distinct argument triples passed to find_location

\* csv rows (lists of cells) the file may hold after its header
RowChoices ==
    { <<"CEFTRIAXONE 1 G BAG", "A1">>,
      <<"ceftriaxone 1 gm bag", " B2 ", "", "Shelf B">>,
      <<"CEFTRIAXONE 1 G VIAL", "V3">>,
      <<"INSULIN REGULAR", "PHRM", "", " Main ">>,
      <<"SENNA-DOCUSATE 8.6-50 MG TABLET", "S1">>,
      <<"POTASSIUM CHLORIDE ORAL SOLUTION", "P1">>,
      <<"1 G", "G7">>,
      <<"ONLY NAME">>,
      <<"  ", "Z9">> }

\* (medication_name, strength, form) triples find_location may be called with
ArgChoices ==
    { <<"Ceftriaxone", "2 g", "bag">>,
      <<"ceftriaxone", "1 g", "bag">>,
      <<"bag ceftriaxone", "1 g", "">>,
      <<"ceftriaxone 1 g bag", "", "injection">>,
      <<"ceftriaxone 1 g bag", "500 mg", "">>,
      <<"INSULIN REGULAR", "", "">>,
      <<"influenza", "0.5 mL", "syringe">>,
      <<"amox-clav", "", "oral susp">>,
      <<"docusate-senna", "50-8.6 mg", "tablet">>,
      <<"docusate-senna", "50 mg", "tablet">>,
      <<"docusate-senna", "50-8.6-7 mg", "tablet">>,
      <<"senna docusate-senna", "50-8.6 mg", "tablet">>,
      <<"chloride potassium", "", "oral solution">>,
      <<"", "1 g", "">>,
      <<" ", "", "">> }

\* medication_name.strip() + f" {strength.strip()}" + f" {form.strip()}"
FullMed(medication_name, strength, form) ==
    strip(medication_name) \o (IF strength # "" THEN " " \o strip(strength) ELSE "")
                           \o (IF form # "" THEN " " \o strip(form) ELSE "")

\* the strings find_location normalizes for the arguments a
NormalizedFor(a) ==
    {FullMed(a[1], a[2], a[3]), FullMed(a[1], a[2], ""), a[1] \o " " \o a[2], a[1]}

CellsOf(S) == {strip(row[1]) : row \in {r \in S : Len(r) >= 2 /\ strip(r[1]) # ""}}

NormalizeArgs == CellsOf(RowChoices) \cup UNION {NormalizedFor(a) : a \in ArgChoices}

\* the pairs <<name, normalized name>>
NormalizeTable == {<<name, _normalize_medication_name(name)>> : name \in NormalizeArgs}

\* self._normalize_medication_name(name)
Normalize(name) == (CHOOSE p \in NormalizeTable : p[1] = name)[2]

ScoreArgs ==
    {Normalize(name) : name \in UNION {NormalizedFor(a) : a \in ArgChoices}}
    \X {Normalize(name) : name \in CellsOf(RowChoices)}

\* the pairs <<<<query, db_name>>, weighted_score>>
ScoreTable == {<<p, WeightedScore(p[1], p[2])>> : p \in ScoreArgs}

Weighted(query, db_name) == (CHOOSE p \in ScoreTable : p[1] = <<query, db_name>>)[2]

(***************************************************************************)
(* MedicationLocationLookup._fuzzy_match and find_location                 *)
(***************************************************************************)
\* if weighted_score > best_score: best is <<best_score, best_match>>
Better(best, weighted_score, match) ==
    IF Less(best[1], weighted_score) THEN <<weighted_score, match>> ELSE best

\* the loop of _fuzzy_match from candidate i on
RECURSIVE FuzzyLoop(_, _, _, _, _)
FuzzyLoop(db, query, candidates, i, best) ==
    IF i > Len(candidates) THEN best
    ELSE IF ~DictHas(db, candidates[i]) THEN FuzzyLoop(db, query, candidates, i + 1, best)
    ELSE FuzzyLoop(db, query, candidates, i + 1,
                   Better(best, Weighted(query, candidates[i]), DictGet(db, candidates[i])))

AtLeast(best, threshold) ==
    IF ~Less(best[1], threshold) /\ best[2] # None THEN best[2] ELSE None

\* _fuzzy_match: (location_code, location_desc) of the best match or None; the
\* score, the third component in the source, is only logged by the caller.
_fuzzy_match(db, idx, query, threshold) ==
    IF split(query) = <<>> THEN None
    ELSE AtLeast(FuzzyLoop(db, query, FuzzyCandidates(db, idx, split(query)[1]), 1,
                           <<Zero, None>>), threshold)

fridge_keywords ==
    {"INSULIN", "VACCINE", "DTAP", "TDAP", "PNEUMOVAX", "H1N1", "FLU", "ZOSTER", "SHINGRIX",
     "VASOPRESSIN", "FAMOTIDINE VIAL", "FAMOTIDINE INJ",
     "AMOXICILLIN-CLAVULANATE SYRINGE", "AUGMENTIN",
     "VANCOMYCIN SYRINGE", "VANCOMYCIN INJ",
     "FORMOTEROL", "PERFOROMIST", "ARMODAFINIL", "NUVIGIL",
     "REFRIGERATE", "FRIDGE",
     "FILGRASTIM", "NEUPOGEN", "ZARXIO", "FOSPHENYTOIN", "CEREBYX",
     "EPTIFIBATIDE", "INTEGRILIN", "OCTREOTIDE", "SANDOSTATIN",
     "CASPOFUNGIN", "CANCIDAS", "DAPTOMYCIN", "CUBICIN",
     "CALCITONIN", "MIACALCIN", "VELETRI", "EPOPROSTENOL", "FLOLAN",
     "ISOPROTERENOL", "ISUPREL", "HEPATITIS", "ENGERIX", "RECOMBIVAX"}

get_location_description(location_code) ==
    IF location_code = "PHRM" THEN "Main Pharmacy"
    ELSE IF location_code = "STR" THEN "Store Room"
    ELSE IF location_code = "VIT" THEN "Vitamins Section"
    ELSE IF location_code = "IV" THEN "IV Room"
    ELSE IF location_code = "FRIDGE" THEN "Refrigerated Section"
    ELSE location_code

FridgeName(upper_name, upper_form) ==
    \/ \E k \in fridge_keywords : Contains(upper_name, k)
    \/ /\ Contains(upper_name, "AMOX")
       /\ Contains(upper_name, "CLAV")
       /\ Contains(upper_form, "SUSP")

\* the fridge test without .upper()
is_fridge_case_sensitive(medication_name, form) == FridgeName(medication_name, form)
is_fridge(medication_name, form) == FridgeName(upper(medication_name), upper(form))

\* a return statement of find_location: which one, and the value returned
Ret(label, value) == [via |-> label, result |-> value]

\* return `value` at the statement `label` if the strategy found it, else go on
OrElse(label, value, otherwise) == IF value # None THEN Ret(label, value) ELSE otherwise

\* self.location_db[key] if key in self.location_db
Exact(db, key) == IF DictHas(db, key) THEN DictGet(db, key) ELSE None

\* words and numbers of a sorted key, as find_location splits them
KeyWordsOf(key) == sorted(SelectSeq(split(key), NotNumericToken))
KeyNumsOf(key) == SelectSeq(split(key), IsNumericToken)

\* the containment of the numbers taken from the candidate to the query
SubsetMatchReversed(normalized_sorted_key, candidate_key) ==
    /\ KeyWordsOf(normalized_sorted_key) = KeyWordsOf(candidate_key)
    /\ Range(KeyNumsOf(candidate_key)) \subseteq Range(sorted(KeyNumsOf(normalized_sorted_key)))

\* the condition of the loop over self._sorted_index.keys()
SubsetMatch(normalized_sorted_key, candidate_key) ==
    /\ KeyWordsOf(normalized_sorted_key) = KeyWordsOf(candidate_key)
    /\ Range(sorted(KeyNumsOf(normalized_sorted_key))) \subseteq Range(KeyNumsOf(candidate_key))

\* a lookup that falls back on the main pharmacy when no key is accepted
SubsetStrategyOrDefault(db, sidx, i) ==
    IF i = 0 THEN <<"MAIN", "Main Pharmacy">> ELSE DictGet(db, sidx[i][2])

\* the first key of self._sorted_index the loop accepts
SubsetStrategy(db, sidx, i) == IF i = 0 THEN None ELSE DictGet(db, sidx[i][2])

\* Strategy 7 of find_location
SortedStrategy(db, sidx, normalized_sorted_key) ==
    IF DictHas(sidx, normalized_sorted_key)
    THEN Ret("sorted_exact", DictGet(db, DictGet(sidx, normalized_sorted_key)))
    ELSE OrElse("sorted_subset",
                SubsetStrategy(db, sidx,
                    First({i \in 1..Len(sidx) : SubsetMatch(normalized_sorted_key, sidx[i][1])})),
                Ret("not_found", None))

\* The body of find_location on the instance state (db, idx, sidx).
find_location(db, idx, sidx, medication_name, strength, form) ==
    IF medication_name = "" THEN Ret("empty", None)
    ELSE IF is_fridge(medication_name, form)
    THEN Ret("fridge", <<"FRIDGE", get_location_description("FRIDGE")>>)
    ELSE
    OrElse("exact", Exact(db, Normalize(FullMed(medication_name, strength, form))),
    OrElse("no_form", IF form # ""
                      THEN Exact(db, Normalize(FullMed(medication_name, strength, "")))
                      ELSE None,
    OrElse("name_strength", IF strength # ""
                            THEN Exact(db, Normalize(medication_name \o " " \o strength))
                            ELSE None,
    OrElse("name_only", Exact(db, Normalize(medication_name)),
    OrElse("fuzzy_full", _fuzzy_match(db, idx, Normalize(FullMed(medication_name, strength, form)),
                                      <<17, 20>>),
    OrElse("fuzzy_name", _fuzzy_match(db, idx, Normalize(medication_name), <<16, 20>>),
    SortedStrategy(db, sidx,
        _get_sorted_words_key(Normalize(FullMed(medication_name, strength, form))))))))))

(***************************************************************************)
(* The lookup as a state machine: __init__ loads the csv file row by row,  *)
(* then find_location is called with arbitrary arguments.  The parser is   *)
(* not used.                                                               *)
(***************************************************************************)
LookupInit ==
    /\ preload = "none"
    /\ _global_lookup = None
    /\ instances = <<>>
    /\ caller = <<>>
    /\ constructing = <<>>
    /\ got = <<>>
    /\ scan_lines = <<>>
    /\ scan_i = 0
    /\ scan_st = <<>>
    /\ scan_out = None
    /\ method = "none"
    /\ method_arg = <<>>
    /\ method_result = <<>>
    /\ reruns = 0
    /\ reparsed = <<>>
    /\ reraised = FALSE
    /\ phase = "loading"
    /\ rows = <<>>
    /\ location_db = <<>>
    /\ search_index = <<>>
    /\ sorted_index = <<>>
    /\ args = <<>>
    /\ returned = None
    /\ via = "none"
    /\ cache = <<>>
    /\ api_key = FALSE
    /\ use_llm_verification = FALSE
    /\ parses = 0
    /\ page_text = ""
    /\ page_annotations = <<>>
    /\ row_replies = <<>>
    /\ groq_reply = None
    /\ strategy = "none"
    /\ found_medications = <<>>
    /\ validated_records = <<>>
    /\ raised = FALSE
    /\ parsed = <<>>
    /\ images = 0
    /\ task = <<>>
    /\ futures = <<>>
    /\ results = <<>>
    /\ completed = <<>>
    /\ pc = "idle"
    /\ deduplicated = <<>>
    /\ status = 0

\* if sorted_key: self._sorted_index[sorted_key] = normalized
IndexSorted(sidx, sorted_key, normalized) ==
    IF sorted_key # "" THEN DictSet(sidx, sorted_key, normalized) ELSE sidx

\* the body of the loop of _load_locations for a row that is not skipped
Store(normalized, location_code, location_desc) ==
    /\ location_db' = DictSet(location_db, normalized, <<location_code, location_desc>>)
    /\ search_index' = _add_to_index(search_index, normalized)
    /\ sorted_index' = IndexSorted(sorted_index, _get_sorted_words_key(normalized), normalized)

\* the rows the loop of _load_locations passes over (`continue`)
Skipped(row) == Len(row) < 2 \/ strip(row[1]) = "" \/ strip(row[2]) = ""

\* one iteration of the loop of _load_locations over the csv reader
LoadRow(row) ==
    /\ phase = "loading"
    /\ Len(rows) < MaxRows
    /\ rows' = Append(rows, row)
    /\ IF Skipped(row)
       THEN UNCHANGED <<location_db, search_index, sorted_index>>
       ELSE Store(Normalize(strip(row[1])), strip(row[2]),
                  IF Len(row) > 3 THEN strip(row[4]) ELSE "")
    /\ UNCHANGED <<phase, args, returned, via, cache>>
    /\ UNCHANGED parserVars
    /\ UNCHANGED batchVars
    /\ UNCHANGED laterVars

\* the csv reader is exhausted (or the file does not exist): __init__ returns
FinishLoad ==
    /\ phase = "loading"
    /\ phase' = "ready"
    /\ UNCHANGED <<rows, location_db, search_index, sorted_index, args, returned, via, cache>>
    /\ UNCHANGED parserVars
    /\ UNCHANGED batchVars
    /\ UNCHANGED laterVars

\* the call returns r and the lru_cache keeps it
Return(a, r) ==
    /\ returned' = r.result
    /\ via' = r.via
    /\ cache' = DictSet(cache, a, r.result)

\* a call of find_location through its lru_cache: on a hit the body does not run
FindLocation(a) ==
    /\ phase = "ready"
    /\ DictHas(cache, a) \/ Len(cache) < MaxCalls
    /\ args' = a
    /\ IF DictHas(cache, a)
       THEN /\ returned' = DictGet(cache, a)
            /\ via' = "cache"
            /\ UNCHANGED cache
       ELSE Return(a, find_location(location_db, search_index, sorted_index, a[1], a[2], a[3]))
    /\ UNCHANGED <<phase, rows, location_db, search_index, sorted_index>>
    /\ UNCHANGED parserVars
    /\ UNCHANGED batchVars
    /\ UNCHANGED laterVars

LookupNext ==
    \/ \E row \in RowChoices : LoadRow(row)
    \/ FinishLoad
    \/ \E a \in ArgChoices : FindLocation(a)

Spec == LookupInit /\ [][LookupNext]_vars

(***************************************************************************)
(* FloorStockParser: the regular expressions that need backtracking, as    *)
(* sequences of repeated character classes <<chars, least, most>> (most    *)
(* negative: unbounded) and of literals <<set of strings>>                 *)
(***************************************************************************)
One(chars) == <<chars, 1, 1>>
Opt(chars) == <<chars, 0, 1>>
Plus(chars) == <<chars, 1, -1>>
Star(chars) == <<chars, 0, -1>>
AnyOf(literals) == <<literals>>

\* how many characters of s from index i a repetition may take
Takes(s, i, item) ==
    {n \in item[2]..(IF item[3] < 0 THEN Len(s) - i + 1 ELSE Min({item[3], Len(s) - i + 1})) :
        \A k \in i..(i + n - 1) : CharAt(s, k) \in item[1]}

\* the indices after the matches of items that start at index i of s
RECURSIVE Ends(_, _, _)
Ends(s, i, items) ==
    IF items = <<>> THEN {i}
    ELSE IF Len(Head(items)) = 1
    THEN UNION {Ends(s, i + Len(w), Tail(items)) : w \in {w \in Head(items)[1] : StartsAt(s, i, w)}}
    ELSE UNION {Ends(s, i + n, Tail(items)) : n \in Takes(s, i, Head(items))}

\* re.match(items, s) is not None
re_match(items, s) == Ends(s, 1, items) # {}
\* re.match(items + '$', s) is not None
re_match_all(items, s) == (Len(s) + 1) \in Ends(s, 1, items)

\* re.sub(r'[^...]', '', s): the characters of s that are in chars
RECURSIVE KeepChars(_, _)
KeepChars(s, chars) ==
    IF Len(s) = 0 THEN ""
    ELSE IF Len(s) = 1 THEN (IF s \in chars THEN s ELSE "")
    ELSE KeepChars(SubSeq(s, 1, Len(s) \div 2), chars)
         \o KeepChars(SubSeq(s, Len(s) \div 2 + 1, Len(s)), chars)

\* int(s) for a string of digits
RECURSIVE int(_)
int(s) ==
    IF s = "" THEN 0
    ELSE 10 * int(SubSeq(s, 1, Len(s) - 1)) + (IndexIn(Digits, CharAt(s, Len(s))) - 1)

\* text.split('\n')
SplitLines(text) == LinesFrom(text \o "\n", 1)

\* d[k] = v on a dict with str keys (a record)
With(d, k, v) == (k :> v) @@ d
\* d.get(k) is truthy, for an int and for a str value; a key that holds None
\* is left out of the record, as the code reads such keys with .get() only
TruthyInt(d, k) == k \in DOMAIN d /\ d[k] # 0
TruthyStr(d, k) == k \in DOMAIN d /\ d[k] # ""

(***************************************************************************)
(* FloorStockParser._parse_medication_block                                *)
(***************************************************************************)
invalid_meds ==
    {"pick", "description", "med", "amount", "device", "area", "actual", "max", "current"}
form_only_words ==
    {"vial", "tablet", "capsule", "bag", "patch", "syringe", "packet", "nebulizer", "cup",
     "syrup", "liquid", "suspension", "injection", "solution", "ivpb", "iv", "soln", "mini",
     "mini-bag"}
unit_abbrevs == {"g", "mg", "mcg", "ml", "l", "meq", "mmol", "units", "unit"}

\* r'^\d*\s*(mg|mcg|g|mL)\s+(vial|tablet|capsule|bag|patch|syringe)\s+'
FormPrefix ==
    <<Star(DigitChars), Star(Whitespace), AnyOf({"mg", "mcg", "g", "ml"}), Plus(Whitespace),
      AnyOf({"vial", "tablet", "capsule", "bag", "patch", "syringe"}), Plus(Whitespace)>>

\* text with the match that ends before index e removed from its start
CutPrefix(text, ends) == IF ends = {} THEN text ELSE Drop(text, Max(ends) - 1)
StripFormPrefix(text) == strip(CutPrefix(text, Ends(lower(text), 1, FormPrefix)))

\* form_pattern, in the order of its alternatives
form_pattern ==
    <<Word("ivpb"), Word("iv"), Word("half tablet"), Word("half\ntablet"), Word("half-tablet"),
      Word("tablet"), Word("capsule"), Word("vial"), Word("bag"), Word("mini bag"),
      Word("mini\nbag"), Word("mini-bag"), Word("patch"), Word("syringe"), Word("packet"),
      Word("nebulizer"), Word("cup"), Word("syrup"), Word("liquid"), Word("suspension"),
      Word("injection"), Word("solution")>>

\* the text of the first match of alts in s, "" if none; j is where it starts
MatchedAt(s, j, alts) == IF j = 0 THEN "" ELSE SubSeq(s, j, MatchEndAlt(s, j, alts) - 1)
Matched(s, alts) == MatchedAt(s, SearchFrom(s, 1, alts), alts)

NormalizeForm(form) ==
    IF form = "" THEN "tablet"
    ELSE IF Contains(form, "ivpb") \/ Contains(form, "mini") THEN "bag"
    ELSE IF Contains(form, "half") THEN "half tablet"
    ELSE IF form = "iv" THEN "bag"
    ELSE form
FormOf(text) == NormalizeForm(Matched(lower(text), form_pattern))

\* strength_pattern, stage by stage, the alternatives of a stage in the order
\* the regex engine tries them; a stage that matched is never retried, as
\* what follows it cannot start with a character the stage gave back
strength_pattern ==
    << << <<DigitPlus, Lit("."), DigitPlus>>, <<DigitPlus>> >>,
       << <<SStar, Lit("mg")>>, <<SStar, Lit("mcg")>>, <<SStar, Lit("g")>>,
          <<SStar, Lit("ml")>>, <<SStar, Lit("unit")>>, <<SStar, Lit("units")>>,
          <<SStar, Lit("%")>>, <<SStar, Lit("meq")>>, <<SStar, Lit("mmol")>> >>,
       << <<SStar, Lit("/"), SStar, DigitPlus, Lit("."), DigitPlus, SStar, Lit("ml")>>,
          <<SStar, Lit("/"), SStar, DigitPlus, Lit("."), DigitPlus, SStar, Lit("l")>>,
          <<SStar, Lit("/"), SStar, DigitPlus, SStar, Lit("ml")>>,
          <<SStar, Lit("/"), SStar, DigitPlus, SStar, Lit("l")>>,
          <<>> >> >>

\* The index after the match of the stages that starts at index i of s; 0 if none.
RECURSIVE MatchStages(_, _, _)
MatchStages(s, i, stages) ==
    IF i = 0 \/ stages = <<>> THEN i
    ELSE MatchStages(s, MatchEndAlt(s, i, Head(stages)), Tail(stages))

\* re.search(stages, text, re.IGNORECASE).group(), "" if there is no match
SearchStagesAt(text, lowered, j, stages) ==
    IF j = 0 THEN "" ELSE SubSeq(text, j, MatchStages(lowered, j, stages) - 1)
SearchStages(text, lowered, stages) ==
    SearchStagesAt(text, lowered,
                   First({j \in 1..Len(lowered) : MatchStages(lowered, j, stages) > 0}), stages)
StrengthOf(text) == SearchStages(text, lower(text), strength_pattern)

\* brand_pattern r'([A-Za-z][A-Za-z\s-]+?)\s+\(([A-Z][A-Z\s-]+(?:\s+IN\s+[A-Z\s]+)?)\)'
\* matches from i with "(" at p and ")" at q: both groups are runs of their
\* classes, so p is the first "(" after i and q the first ")" after p
GenericChars == LetterChars \cup Whitespace \cup {"-"}
BrandChars == UpperChars \cup Whitespace \cup {"-"}
BrandMatch(s, i, p, q) ==
    /\ CharAt(s, i) \in LetterChars
    /\ p >= i + 3
    /\ \A k \in i..(p - 1) : CharAt(s, k) \in GenericChars
    /\ CharAt(s, p - 1) \in Whitespace
    /\ CharAt(s, p) = "("
    /\ q >= p + 3
    /\ CharAt(s, p + 1) \in UpperChars
    /\ \A k \in (p + 1)..(q - 1) : CharAt(s, k) \in BrandChars
    /\ CharAt(s, q) = ")"
BrandMatches(s) ==
    {m \in (1..Len(s)) \X {p \in 1..Len(s) : CharAt(s, p) = "("}
                       \X {q \in 1..Len(s) : CharAt(s, q) = ")"} :
        BrandMatch(s, m[1], m[2], m[3])}
\* the leftmost match
BrandLeftmost(ms) == CHOOSE m \in ms : \A o \in ms : m[1] <= o[1]

\* generic, with the trailing "in" removed when the brand has " IN "
Generic(generic, brand) ==
    IF Contains(brand, " IN ") /\ EndsWith(lower(generic), " in")
    THEN strip(SubSeq(generic, 1, Len(generic) - 3)) ELSE generic
BrandName(s, m) ==
    Generic(strip(SubSeq(s, m[1], m[2] - 1)), strip(SubSeq(s, m[2] + 1, m[3] - 1)))
    \o " (" \o strip(SubSeq(s, m[2] + 1, m[3] - 1)) \o ")"

\* name_end_pattern: what may follow the name
NameEnd ==
    { <<Plus(Whitespace), Plus(DigitChars), Star(Whitespace),
        AnyOf({"mg", "mcg", "g", "ml", "unit", "%", "meq"})>>,
      <<Plus(Whitespace), Plus(DigitChars), One({"."}), Plus(DigitChars), Star(Whitespace),
        AnyOf({"mg", "mcg", "g", "ml", "unit", "%", "meq"})>>,
      <<Plus(Whitespace), AnyOf({"ivpb"})>>,
      <<AnyOf({"iv", "tablet", "capsule", "vial", "bag"})>> }
\* the indices where the lazy group ([A-Za-z][A-Za-z\s-]+?) may end
NameEnds(s, lowered) ==
    {e \in 3..(Len(s) + 1) :
        /\ CharAt(s, 1) \in LetterChars
        /\ \A k \in 2..(e - 1) : CharAt(s, k) \in GenericChars
        /\ \E items \in NameEnd : Ends(lowered, e, items) # {}}

\* the fallback: the first words of text, up to the first number
FirstWords(ws, stop) ==
    SelectSeq(SubSeq(ws, 1, IF stop = 0 THEN Len(ws) ELSE stop - 1),
              LAMBDA word : lower(word) \notin {"in", "iv", "ivpb"})
UpToFive(words, ws) == IF words = <<>> THEN ws[1] ELSE join(SubSeq(words, 1, Min({5, Len(words)})), " ")
FallbackName(ws) ==
    UpToFive(FirstWords(ws, First({k \in 1..Len(ws) : CharAt(ws[k], 1) \in DigitChars})), ws)

PlainName(text, ends) ==
    IF ends # {} THEN strip(SubSeq(text, 1, Min(ends) - 1)) ELSE FallbackName(split(text))
NameFrom(text, ms) ==
    IF ms # {} THEN BrandName(text, BrandLeftmost(ms))
    ELSE PlainName(text, NameEnds(text, lower(text)))
NameOf(text) == strip(NameFrom(text, BrandMatches(text)))

\* the checks of the name, and the dict returned
MedicationBlock(name, clean_name, strength, form, device, pick_amount) ==
    IF name = "" \/ clean_name = "" THEN None
    ELSE IF Len(clean_name) < 3 THEN None
    ELSE IF lower(name) \in form_only_words THEN None
    ELSE IF lower(clean_name) \in unit_abbrevs THEN None
    ELSE IF strength = "" /\ Len(clean_name) < 5 THEN None
    ELSE [name |-> name, strength |-> strength, form |-> form, floor |-> device,
          pick_amount |-> pick_amount]

ParseBlock(text, name, device, pick_amount) ==
    MedicationBlock(name, KeepChars(name, LetterChars), StrengthOf(text), FormOf(text),
                    device, pick_amount)

_parse_medication_block(text, device, pick_amount) ==
    IF strip(lower(text)) \in invalid_meds \cup form_only_words THEN None
    ELSE ParseBlock(StripFormPrefix(text), NameOf(StripFormPrefix(text)), device, pick_amount)

(***************************************************************************)
(* FloorStockParser._parse_bd_table_enhanced: the deterministic line scan  *)
(***************************************************************************)
\* r'\d+[EW][-_]?[\dA-Z]+[-_]?[A-Z]*' under re.IGNORECASE
DevicePattern ==
    <<Plus(DigitChars), One({"E", "W", "e", "w"}), Opt({"-", "_"}),
      Plus(DigitChars \cup LetterChars), Opt({"-", "_"}), Star(LetterChars)>>
\* r'^\d+[EW][-_]?[\dA-Z]+'
DeviceStart ==
    <<Plus(DigitChars), One({"E", "W"}), Opt({"-", "_"}), Plus(DigitChars \cup UpperChars)>>

\* the line without the optional 'Device:\s*' in front
DeviceBody(line) == IF StartsWith(lower(line), "device:") THEN lstrip(Drop(line, 7)) ELSE line
\* device_match.group(1), "" when the line is no device line
DeviceOf(body) == IF re_match_all(DevicePattern, body) THEN body ELSE ""
device_match(line) == DeviceOf(DeviceBody(line))

skip_terms ==
    {"device", "med", "description", "pick", "amount", "max", "current", "area", "actual",
     "report", "time", "group", "by", "summary", "mount", "sinai", "morningside", "run", "des",
     "bd"}
unit_words == {"mg", "mcg", "ml", "meq", "mmol", "unit", "units"}
\* the form_only_words of _parse_bd_table_enhanced
line_form_only_words ==
    {"vial", "tablet", "capsule", "bag", "patch", "syringe", "packet", "ivpb", "mini", "soln"}

Substantial(line, clean_letters) ==
    /\ Len(clean_letters) >= 4
    /\ lower(line) \notin line_form_only_words
    /\ lower(clean_letters) \notin unit_words

is_new_med_start(line) ==
    /\ Len(line) >= 3
    /\ IF \/ CharAt(line, 1) \in LowerChars
          \/ re_match(<<One(UpperChars), Plus(UpperChars), One(LowerChars)>>, line)
       THEN /\ ~re_match(<<One(LowerChars), Star(Whitespace), One({"(", "["})>>, line)
            /\ Substantial(line, KeepChars(line, LetterChars))
       ELSE re_match(DeviceStart, line)

\* the local variables of the scan before its first line
ScanStart ==
    [current_device |-> "", current_med_lines |-> <<>>, in_medication_table |-> FALSE,
     numbers_seen |-> 0, potential_pick_amount |-> None, medications |-> <<>>]

\* potential_pick_amount if 'potential_pick_amount' in locals() else 0
PickOf(st) == IF st.potential_pick_amount = None THEN 0 ELSE st.potential_pick_amount[1]

\* medications.append(med_data) if med_data
AppendMed(medications, med_data) ==
    IF med_data = None THEN medications ELSE Append(medications, med_data)

\* the medications after the accumulated lines are processed
Processed(st) ==
    IF st.current_device # ""
    THEN AppendMed(st.medications,
                   _parse_medication_block(join(st.current_med_lines, " "),
                                           st.current_device, PickOf(st)))
    ELSE st.medications

\* a standalone number: the second one seen is kept as the pick amount
NumberLine(line, st, seen) ==
    [st EXCEPT !.numbers_seen = seen,
               !.potential_pick_amount = IF seen = 2 THEN <<int(line)>> ELSE @]

\* one iteration of the while loop that starts a record at every name-like line
ScanLineSplitting(line, st) ==
    IF line = "" THEN st
    ELSE IF device_match(line) # ""
    THEN [st EXCEPT !.current_device = device_match(line), !.in_medication_table = TRUE]
    ELSE IF ~st.in_medication_table THEN st
    ELSE IF lower(line) \in skip_terms \/ Contains(line, "|") THEN st
    ELSE IF isdigit(line) /\ Len(line) <= 3 THEN NumberLine(line, st, st.numbers_seen + 1)
    ELSE IF is_new_med_start(line) /\ st.current_med_lines # <<>>
    THEN [st EXCEPT !.medications = Processed(st), !.current_med_lines = <<line>>,
                    !.numbers_seen = 0, !.potential_pick_amount = None]
    ELSE IF Len(line) >= 2
    THEN [st EXCEPT !.current_med_lines = Append(@, line)]
    ELSE st

\* one iteration of the while loop, line stripped
ScanLine(line, st) ==
    IF line = "" THEN st
    ELSE IF device_match(line) # ""
    THEN [st EXCEPT !.current_device = device_match(line), !.in_medication_table = TRUE]
    ELSE IF ~st.in_medication_table THEN st
    ELSE IF lower(line) \in skip_terms \/ Contains(line, "|") THEN st
    ELSE IF isdigit(line) /\ Len(line) <= 3 THEN NumberLine(line, st, st.numbers_seen + 1)
    ELSE IF is_new_med_start(line) /\ st.current_med_lines # <<>> /\ st.numbers_seen > 0
    THEN [st EXCEPT !.medications = Processed(st), !.current_med_lines = <<line>>,
                    !.numbers_seen = 0, !.potential_pick_amount = None]
    ELSE IF Len(line) >= 2
    THEN [st EXCEPT !.current_med_lines = Append(@, line)]
    ELSE st

RECURSIVE ScanLines(_, _, _)
ScanLines(lines, i, st) ==
    IF i > Len(lines) THEN st ELSE ScanLines(lines, i + 1, ScanLine(strip(lines[i]), st))

\* after the loop: process the last medication if any
ScanEnd(st) ==
    IF st.current_med_lines # <<>> /\ st.numbers_seen > 0 THEN Processed(st)
    ELSE st.medications

_parse_bd_table_enhanced(text) == ScanEnd(ScanLines(SplitLines(text), 1, ScanStart))

(***************************************************************************)
(* FloorStockParser._fuzzy_match_in_text and _validate_against_source      *)
(***************************************************************************)
\* s.split(sep) for a non-empty separator
RECURSIVE SplitOn(_, _, _)
SplitOnAt(s, sep, i, j) ==
    IF j = 0 THEN <<SubSeq(s, i, Len(s))>>
    ELSE <<SubSeq(s, i, j - 1)>> \o SplitOn(s, sep, j + Len(sep))
SplitOn(s, sep, i) == SplitOnAt(s, sep, i, FindFrom(s, sep, i))

\* all(part.strip() in text for part in parts if part.strip())
AllPartsIn(parts, text) ==
    \A k \in 1..Len(parts) : strip(parts[k]) = "" \/ Contains(text, strip(parts[k]))

\* the n-grams of the text compared with the search term
FuzzyPhrase(search_term, words, search_words) ==
    \E i \in 1..Len(words) :
        \E j \in i..Min({i + Len(search_words), Len(words)}) :
            ~Less(ratio(search_term, join(SubSeq(words, i, j), " ")), <<7, 10>>)

\* the last check: a word of the main name of 6 characters or more
CoreWord(main_words, text) ==
    \E k \in 1..Len(main_words) : Len(main_words[k]) >= 6 /\ Contains(text, main_words[k])

\* the checks that use main_name
MainNameIn(search_term, main_name, text) ==
    \/ Contains(text, main_name)
    \/ Contains(main_name, " in ") /\ AllPartsIn(SplitOn(main_name, " in ", 1), text)
    \/ FuzzyPhrase(search_term, split(text), split(search_term))
    \/ CoreWord(split(main_name), text)

\* search_term and text in lower case
FuzzyIn(search_term, text) ==
    \/ Contains(join(split(text), " "), join(split(search_term), " "))
    \/ Contains(text, search_term)
    \/ MainNameIn(search_term, strip(SplitOn(search_term, "(", 1)[1]), text)

_fuzzy_match_in_text(search_term, text) == FuzzyIn(lower(search_term), lower(text))

\* r'^\d+[-_]?[A-Za-z0-9]+[-_]?[A-Za-z0-9]*$'
FloorPattern ==
    <<Plus(DigitChars), Opt({"-", "_"}), Plus(DigitChars \cup LetterChars), Opt({"-", "_"}),
      Star(DigitChars \cup LetterChars)>>

\* a validation of the name alone
validation_passed_by_name(med, source_lower) ==
    _fuzzy_match_in_text(lower(med.name), source_lower)

\* validation_passed for one medication
validation_passed(med, source_lower) ==
    /\ _fuzzy_match_in_text(lower(med.name), source_lower)
    /\ TruthyStr(med, "floor") => re_match_all(FloorPattern, med.floor)

_validate_against_source(medications, source_text) ==
    SelectSeq(medications, LAMBDA med : validation_passed(med, lower(source_text)))

\* A JSON number under the key floor, which the code reads as a str, is
\* kept under the key "floor:int".  med.get('floor') is then truthy unless
\* it is 0, and re.match raises TypeError on it.
NonStringFloor(med) == "floor:int" \in DOMAIN med /\ med["floor:int"] # 0

\* _validate_against_source raises: a medication whose name passed has a
\* floor that is not a str
ValidationRaises(medications, source_text) ==
    \E i \in 1..Len(medications) :
        /\ _fuzzy_match_in_text(lower(medications[i].name), lower(source_text))
        /\ NonStringFloor(medications[i])

\* Step 4 of parse: r'^(PICK|Med|Description|Amount|Device|Summary)', re.IGNORECASE
IsHeader(name) ==
    \E h \in {"pick", "med", "description", "amount", "device", "summary"} :
        StartsWith(lower(name), h)
FilterHeaders(validated_medications) ==
    SelectSeq(validated_medications, LAMBDA med : ~IsHeader(med.name))

(***************************************************************************)
(* FloorStockParser._identify_columns_by_formula and                       *)
(* _identify_numbers_by_formula.  A score s of the source is the integer  *)
(* 10 * s here.                                                            *)
(***************************************************************************)
Abs(n) == IF n < 0 THEN -n ELSE n

\* str(n)
RECURSIVE str(_)
str(n) ==
    IF n < 0 THEN "-" \o str(-n)
    ELSE IF n < 10 THEN CharAt(Digits, n + 1)
    ELSE str(n \div 10) \o CharAt(Digits, (n % 10) + 1)

\* abs(pick - (max_val - curr)) <= 5
FormulaHolds(pick, max_val, curr) == Abs(pick - (max_val - curr)) <= 5

\* the numbers at three 1-based positions
ValuesAt(numbers, pos) == <<numbers[pos[1]], numbers[pos[2]], numbers[pos[3]]>>
Valid(values) == FormulaHolds(values[1], values[2], values[3])

\* max(abs(j - i), abs(k - j)), the distance of the second and third pass
Distance(pos) == Max({Abs(pos[2] - pos[1]), Abs(pos[3] - pos[2])})
\* distance = 2  # Consecutive triplet
ConsecutiveDistance == 2

\* the triplets appended for the positions of a list, in its order: those
\* whose numbers satisfy the formula, with their distance and score
ScoredAt(numbers, pos, base, distance) ==
    [positions |-> pos, values |-> ValuesAt(numbers, pos), distance |-> distance,
     score |-> 10 * base - 10 * distance + (pos[1] - 1)]
Scored(numbers, valid, base, consecutive) ==
    [t \in 1..Len(valid) |->
        ScoredAt(numbers, valid[t], base,
                 IF consecutive THEN ConsecutiveDistance ELSE Distance(valid[t]))]
Triplets(numbers, positions, base, consecutive) ==
    Scored(numbers, SelectSeq(positions, LAMBDA pos : Valid(ValuesAt(numbers, pos))), base,
           consecutive)

\* FIRST PASS: consecutive positions
Consecutive(n) == [i \in 1..Max({n - 2, 0}) |-> <<i, i + 1, i + 2>>]
\* SECOND PASS: (i, i+1, i+3) then (i, i+2, i+3) for each i
NearConsecutive(n) ==
    [t \in 1..(2 * Max({n - 3, 0})) |->
        IF t % 2 = 1 THEN <<(t + 1) \div 2, ((t + 1) \div 2) + 1, ((t + 1) \div 2) + 3>>
        ELSE <<t \div 2, (t \div 2) + 2, (t \div 2) + 3>>]
\* THIRD PASS and the search for unused triplets: all i, j, k, pairwise different
AllPositions(n) ==
    SelectSeq([t \in 1..(n * n * n) |->
                  <<((t - 1) \div (n * n)) + 1, (((t - 1) \div n) % n) + 1, ((t - 1) % n) + 1>>],
              LAMBDA pos : pos[1] # pos[2] /\ pos[2] # pos[3] /\ pos[1] # pos[3])

\* valid_triplets after the first two passes, and after the third
CloseTriplets(numbers) ==
    Triplets(numbers, Consecutive(Len(numbers)), 100, TRUE)
    \o Triplets(numbers, NearConsecutive(Len(numbers)), 80, FALSE)
\* valid_triplets without the third pass
ValidTripletsCloseOnly(numbers, close) == close
ValidTriplets(numbers, close) ==
    IF close # <<>> THEN close ELSE Triplets(numbers, AllPositions(Len(numbers)), 50, FALSE)

\* max(valid_triplets, key=lambda t: t['score'])['values'], None if there is none
BestTriplet(valid_triplets) ==
    IF valid_triplets = <<>> THEN None
    ELSE valid_triplets[Min({i \in 1..Len(valid_triplets) :
                               \A j \in 1..Len(valid_triplets) :
                                   valid_triplets[j].score <= valid_triplets[i].score})].values

_identify_columns_by_formula(numbers) == BestTriplet(ValidTriplets(numbers, CloseTriplets(numbers)))

\* the valid triplets of a medication other than the one used, each value once
UnusedValues(values, used) ==
    SelectSeq([t \in 1..Len(values) |-> <<t, values[t]>>],
              LAMBDA v : /\ Valid(v[2])
                         /\ v[2] # used
                         /\ \A u \in 1..(v[1] - 1) : values[u] # v[2])
UnusedTriplets(kept, source_med) ==
    [t \in 1..Len(kept) |->
        [pick |-> kept[t][2][1], max |-> kept[t][2][2], current |-> kept[t][2][3],
         source_med |-> source_med]]
Unused(numbers, positions, used, source_med) ==
    UnusedTriplets(UnusedValues([t \in 1..Len(positions) |-> ValuesAt(numbers, positions[t])],
                                used), source_med)

\* the warnings, without their leading sign
MismatchWarning(pick, max_val, curr) ==
    "Formula mismatch! Found Pick=" \o str(pick) \o ", Max=" \o str(max_val)
    \o ", Current=" \o str(curr) \o ". Please enter correct amount manually."
IncompleteWarning(n) ==
    "Incomplete data! Only " \o str(n)
    \o " number(s) found. Please enter correct amount manually."

\* med with the three amounts set
WithAmounts(med, pick, max_val, curr) ==
    With(With(With(med, "pick_amount", pick), "max", max_val), "current_amount", curr)

\* the medication of the first pass for three numbers or more
Identified(med, numbers, best) ==
    IF best # None THEN WithAmounts(med, best[1], best[2], best[3])
    ELSE With(WithAmounts(med, numbers[1], numbers[2], numbers[3]), "warning",
              MismatchWarning(numbers[1], numbers[2], numbers[3]))

FirstPassMed(med) ==
    IF "numbers" \notin DOMAIN med \/ med.numbers = <<>> THEN med
    ELSE IF Len(med.numbers) = 1 THEN With(med, "pick_amount", med.numbers[1])
    ELSE IF Len(med.numbers) >= 3
    THEN Identified(med, med.numbers, _identify_columns_by_formula(med.numbers))
    ELSE With(With(med, "pick_amount", med.numbers[1]), "warning",
              IncompleteWarning(Len(med.numbers)))

\* what the medication adds to all_unused_triplets
UnusedOf(med, best) ==
    IF best = None THEN <<>>
    ELSE Unused(med.numbers, AllPositions(Len(med.numbers)), best, med.name)
FirstPassUnused(med) ==
    IF "numbers" \in DOMAIN med /\ Len(med.numbers) >= 3
    THEN UnusedOf(med, _identify_columns_by_formula(med.numbers))
    ELSE <<>>

RECURSIVE AllUnused(_)
AllUnused(medications) ==
    IF medications = <<>> THEN <<>>
    ELSE FirstPassUnused(Head(medications)) \o AllUnused(Tail(medications))

\* all_unused_triplets.sort(key=lambda t: t['pick']): stable
RECURSIVE SortByPick(_)
SortTaking(triplets, m) ==
    <<triplets[m]>> \o SortByPick(SubSeq(triplets, 1, m - 1)
                                  \o SubSeq(triplets, m + 1, Len(triplets)))
SortByPick(triplets) ==
    IF triplets = <<>> THEN <<>>
    ELSE SortTaking(triplets,
                    Min({i \in 1..Len(triplets) :
                           \A j \in 1..Len(triplets) : triplets[i].pick <= triplets[j].pick}))

\* the index of the triplet a medication without pick amount takes
Within(triplets, lo, hi) == {i \in 1..Len(triplets) : lo <= triplets[i].pick /\ triplets[i].pick <= hi}
\* the first of the sorted triplets, whatever its pick
TakenIndexFirst(triplets) == 1
TakenIndex(triplets) ==
    IF Within(triplets, 10, 20) # {} THEN Min(Within(triplets, 10, 20))
    ELSE IF Within(triplets, 5, 30) # {} THEN Min(Within(triplets, 5, 30))
    ELSE 1

\* SECOND PASS over processed_meds
RECURSIVE SecondPass(_, _)
SecondPassTaking(processed_meds, triplets, i) ==
    <<WithAmounts(Head(processed_meds), triplets[i].pick, triplets[i].max, triplets[i].current)>>
    \o SecondPass(Tail(processed_meds),
                  SubSeq(triplets, 1, i - 1) \o SubSeq(triplets, i + 1, Len(triplets)))
SecondPass(processed_meds, all_unused_triplets) ==
    IF processed_meds = <<>> THEN <<>>
    ELSE IF "pick_amount" \notin DOMAIN Head(processed_meds) /\ all_unused_triplets # <<>>
    THEN SecondPassTaking(processed_meds, all_unused_triplets, TakenIndex(all_unused_triplets))
    ELSE <<Head(processed_meds)>> \o SecondPass(Tail(processed_meds), all_unused_triplets)

_identify_numbers_by_formula(medications) ==
    SecondPass([i \in 1..Len(medications) |-> FirstPassMed(medications[i])],
               SortByPick(AllUnused(medications)))

(***************************************************************************)
(* FloorStockParser._parse_with_row_clustering.  A word annotation is a    *)
(* record [description, vertices], vertices a sequence of <<x, y>>; the    *)
(* means of the coordinates are taken by integer division.                 *)
(***************************************************************************)
RECURSIVE Sum(_)
Sum(ns) == IF ns = <<>> THEN 0 ELSE Head(ns) + Sum(Tail(ns))

\* the dict _extract_words_with_coordinates makes of an annotation
WordOf(description, x_coords, y_coords) ==
    [text |-> description,
     x |-> Sum(x_coords) \div Len(x_coords), y |-> Sum(y_coords) \div Len(y_coords),
     x_min |-> Min(Range(x_coords)), x_max |-> Max(Range(x_coords)),
     y_min |-> Min(Range(y_coords)), y_max |-> Max(Range(y_coords))]
AnnotatedWord(annotation) ==
    WordOf(annotation.description,
           [v \in 1..Len(annotation.vertices) |-> annotation.vertices[v][1]],
           [v \in 1..Len(annotation.vertices) |-> annotation.vertices[v][2]])

\* the first annotation is the full text and is skipped
WordsOfAnnotations(annotations) ==
    [i \in 1..Len(annotations) |-> AnnotatedWord(annotations[i])]
_extract_words_with_coordinates(word_annotations) ==
    IF Len(word_annotations) > 1
    THEN WordsOfAnnotations(SelectSeq(Tail(word_annotations),
                                      LAMBDA annotation : Len(annotation.vertices) >= 2))
    ELSE <<>>

\* sorted(words, key=lambda w: w[k]): stable
RECURSIVE SortedBy(_, _)
SortedByTaking(words, k, m) ==
    <<words[m]>> \o SortedBy(SubSeq(words, 1, m - 1) \o SubSeq(words, m + 1, Len(words)), k)
SortedBy(words, k) ==
    IF words = <<>> THEN <<>>
    ELSE SortedByTaking(words, k,
                        Min({i \in 1..Len(words) :
                               \A j \in 1..Len(words) : words[i][k] <= words[j][k]}))

\* a row that ends where a word is more than 15 below the word before it
RowEndChained(sorted_words, i) ==
    Min({j \in (i + 1)..(Len(sorted_words) + 1) :
           j = Len(sorted_words) + 1 \/ Abs(sorted_words[j].y - sorted_words[j - 1].y) > 15})
\* the words of sorted_words from index i that belong to the row started at i
RowEnd(sorted_words, i) ==
    Min({j \in (i + 1)..(Len(sorted_words) + 1) :
           j = Len(sorted_words) + 1 \/ Abs(sorted_words[j].y - sorted_words[i].y) > 15})
RECURSIVE ClusterFrom(_, _)
ClusterTo(sorted_words, i, j) ==
    <<SortedBy(SubSeq(sorted_words, i, j - 1), "x")>> \o ClusterFrom(sorted_words, j)
ClusterFrom(sorted_words, i) ==
    IF i > Len(sorted_words) THEN <<>> ELSE ClusterTo(sorted_words, i, RowEnd(sorted_words, i))
_cluster_words_into_rows(words) == ClusterFrom(SortedBy(words, "y"), 1)

\* [w['text'] for w in row]
TextsOf(row) == [i \in 1..Len(row) |-> row[i].text]

\* whether row i counts as a header row
HeaderLike(row_text_lower, texts) ==
    /\ 2 * Cardinality({i \in 1..Len(texts) : isdigit(texts[i])}) <= Len(texts)
    /\ \/ \E keyword \in {"pick amount", "pick actual", "current amount", "med description"} :
             Contains(row_text_lower, keyword)
       \/ \E i \in 1..Len(texts) :
             /\ Len(texts[i]) > 1
             /\ lower(texts[i]) \in {"pick", "max", "current", "amount", "actual",
                                     "description", "device", "area"}
\* the last header row among all rows
_find_header_row_anywhere(word_rows) ==
    Last({i \in 1..Len(word_rows) :
            HeaderLike(lower(join(TextsOf(word_rows[i]), " ")), TextsOf(word_rows[i]))})
\* the 1-based index of the last header row among the first 40; 0 for None
_find_header_row(word_rows) ==
    Last({i \in 1..Min({40, Len(word_rows)}) :
            HeaderLike(lower(join(TextsOf(word_rows[i]), " ")), TextsOf(word_rows[i]))})

\* one word of the header
HeaderWord(columns, word, text_lower) ==
    IF Contains(text_lower, "pick") /\ Contains(text_lower, "amount")
    THEN With(columns, "pick_amount", <<word.x_min - 30, word.x_max + 30>>)
    ELSE IF Contains(text_lower, "pick") /\ ~Contains(text_lower, "actual")
    THEN (IF "pick_amount" \notin DOMAIN columns
          THEN With(columns, "pick_amount", <<word.x_min - 30, word.x_max + 30>>)
          ELSE columns)
    ELSE IF text_lower = "max"
    THEN With(columns, "max", <<word.x_min - 30, word.x_max + 30>>)
    ELSE IF Contains(text_lower, "current")
    THEN With(columns, "current_amount", <<word.x_min - 30, word.x_max + 30>>)
    ELSE IF Contains(text_lower, "med") \/ Contains(text_lower, "description")
    THEN With(columns, "med_description", <<word.x_min - 30, word.x_max + 100>>)
    ELSE IF Contains(text_lower, "device")
    THEN With(columns, "device", <<word.x_min - 30, word.x_max + 30>>)
    ELSE columns

RECURSIVE HeaderWords(_, _, _)
HeaderWords(columns, header_row, i) ==
    IF i > Len(header_row) THEN columns
    ELSE HeaderWords(HeaderWord(columns, header_row[i], lower(header_row[i].text)),
                     header_row, i + 1)

\* the pick amount column inferred from the max column
Inferred(columns) ==
    IF {"max", "current_amount"} \subseteq DOMAIN columns /\ "pick_amount" \notin DOMAIN columns
    THEN With(columns, "pick_amount", <<columns.max[1] - 150, columns.max[1] - 50>>)
    ELSE columns
_identify_columns_from_header(header_row) == Inferred(HeaderWords(<<>>, header_row, 1))

\* the number that follows the word at idx and a "-", "" if there is none
FloorNumber(texts, idx) ==
    IF idx + 2 <= Len(texts) /\ strip(texts[idx + 1]) = "-" /\ isdigit(strip(texts[idx + 2]))
    THEN strip(texts[idx + 2]) ELSE ""

\* the floor the word i of the row gives, "" if none; idx is row.index(word)
FloorAt(text, number) ==
    IF re_match_all(<<Plus(DigitChars), Plus(UpperChars), One({"-"}), Plus(DigitChars)>>, text)
    THEN text
    ELSE IF /\ re_match_all(<<Plus(DigitChars), Plus(UpperChars)>>, text)
            /\ Len(text) <= 4
            /\ number # ""
    THEN text \o "-" \o number
    ELSE ""
FloorsOf(row, texts) ==
    [i \in 1..Len(row) |->
        FloorAt(strip(texts[i]), FloorNumber(texts, Min({j \in 1..Len(row) : row[j] = row[i]})))]
FirstFloor(floors) ==
    IF \A i \in 1..Len(floors) : floors[i] = "" THEN ""
    ELSE floors[Min({i \in 1..Len(floors) : floors[i] # ""})]
\* "" for None
_extract_floor_from_row(row) == FirstFloor(FloorsOf(row, TextsOf(row)))

\* x_min <= x <= x_max for the column named, when the header gave it
InColumn(columns, name, x) ==
    name \in DOMAIN columns /\ columns[name][1] <= x /\ x <= columns[name][2]

\* med_words: the words of the description column, a number after the first
\* word left out when the row mentions mg
RECURSIVE MedWords(_, _, _, _, _)
MedWords(row, columns, has_mg, i, med_words) ==
    IF i > Len(row) THEN med_words
    ELSE MedWords(row, columns, has_mg, i + 1,
                  IF /\ strip(row[i].text) # ""
                     /\ InColumn(columns, "med_description", row[i].x)
                     /\ ~(isdigit(strip(row[i].text)) /\ med_words # <<>> /\ has_mg)
                  THEN Append(med_words, strip(row[i].text)) ELSE med_words)

\* the last number of the row in the column named; None if there is none
NumbersIn(row, columns, name) ==
    {i \in 1..Len(row) : InColumn(columns, name, row[i].x) /\ isdigit(strip(row[i].text))}
LastNumber(row, at) == IF at = {} THEN None ELSE <<int(strip(row[Max(at)].text))>>
ColumnNumber(row, columns, name) == LastNumber(row, NumbersIn(row, columns, name))

\* d[k] = v where v may be None: a key that holds None is left out
WithOptional(d, k, v) ==
    IF v = None THEN [key \in DOMAIN d \ {k} |-> d[key]] ELSE With(d, k, v[1])

\* med_data with the numbers of the columns and the floor
RowMedication(med_data, pick_amount, max_amount, current_amount, current_floor) ==
    WithOptional(WithOptional(WithOptional(WithOptional(med_data,
        "pick_amount", pick_amount), "max", max_amount), "current_amount", current_amount),
        "floor", IF current_floor = "" THEN None ELSE <<current_floor>>)

\* _extract_medication_from_row once the LLM has answered med_data
_extract_medication_from_row(row, columns, current_floor, med_data) ==
    IF med_data = None THEN None
    ELSE RowMedication(med_data, ColumnNumber(row, columns, "pick_amount"),
                       ColumnNumber(row, columns, "max"),
                       ColumnNumber(row, columns, "current_amount"), current_floor)

RowMismatchWarning(actual_pick, max_val, curr) ==
    "Formula mismatch! Found Pick=" \o str(actual_pick) \o ", Max=" \o str(max_val)
    \o ", Current=" \o str(curr) \o ". Expected Pick=" \o str(max_val - curr)
    \o ". Please verify manually."

\* Validate with formula
FormulaChecked(med_data) ==
    IF /\ TruthyInt(med_data, "pick_amount")
       /\ TruthyInt(med_data, "max")
       /\ TruthyInt(med_data, "current_amount")
       /\ Abs(med_data.pick_amount - (med_data.max - med_data.current_amount)) > 5
    THEN With(med_data, "warning",
              RowMismatchWarning(med_data.pick_amount, med_data.max, med_data.current_amount))
    ELSE med_data

\* The loop over the data rows.  key: whether the parser has a key;
\* replies: what the LLM answers to the requests of this call, in order; a
\* request beyond them fails.  Gives the medications and the number of
\* requests made.
LlmAnswer(key, replies, asked) ==
    IF key /\ asked < Len(replies) THEN replies[asked + 1] ELSE None

NoMedications == [medications |-> <<>>, asked |-> 0]

RECURSIVE DataRows(_, _, _, _, _, _, _, _)
\* a row with med_words; med_data is what the LLM answered.  An answer
\* without a name raises KeyError at the log line that follows the append,
\* and the except clause returns [].
Answered(word_rows, i, columns, current_floor, key, replies, asked, medications, med_data) ==
    IF med_data # None /\ "name" \notin DOMAIN med_data
    THEN [medications |-> <<>>, asked |-> asked]
    ELSE DataRows(word_rows, i + 1, columns, current_floor, key, replies, asked,
                  AppendMed(medications,
                      IF med_data = None THEN None
                      ELSE FormulaChecked(_extract_medication_from_row(
                               word_rows[i], columns, current_floor, med_data))))
DataRow(word_rows, i, columns, current_floor, key, replies, asked, medications, med_words) ==
    IF med_words = <<>>
    THEN DataRows(word_rows, i + 1, columns, current_floor, key, replies, asked, medications)
    ELSE Answered(word_rows, i, columns, current_floor, key, replies,
                  IF key THEN asked + 1 ELSE asked, medications,
                  LlmAnswer(key, replies, asked))

DataRows(word_rows, i, columns, current_floor, key, replies, asked, medications) ==
    IF i > Len(word_rows) THEN [medications |-> medications, asked |-> asked]
    ELSE IF _extract_floor_from_row(word_rows[i]) # ""
    THEN DataRows(word_rows, i + 1, columns, _extract_floor_from_row(word_rows[i]), key,
                  replies, asked, medications)
    ELSE DataRow(word_rows, i, columns, current_floor, key, replies, asked, medications,
                 MedWords(word_rows[i], columns,
                          Contains(join(TextsOf(word_rows[i]), " "), "mg"), 1, <<>>))

\* all_header_words: the words of the word_rows up to the header row
RECURSIVE Concat(_)
Concat(seqs) == IF seqs = <<>> THEN <<>> ELSE Head(seqs) \o Concat(Tail(seqs))

ClusteredFrom(word_rows, header_row_idx, columns, key, replies) ==
    IF DOMAIN columns = {} THEN NoMedications
    ELSE DataRows(word_rows, header_row_idx + 1, columns, "", key, replies, 0, <<>>)
ClusteredRows(word_rows, header_row_idx, key, replies) ==
    IF Len(word_rows) < 2 \/ header_row_idx = 0 THEN NoMedications
    ELSE ClusteredFrom(word_rows, header_row_idx,
                       _identify_columns_from_header(Concat(SubSeq(word_rows, 1, header_row_idx))),
                       key, replies)
Clustered(word_rows, key, replies) ==
    ClusteredRows(word_rows, _find_header_row(word_rows), key, replies)

_parse_with_row_clustering(word_annotations, key, replies) ==
    IF _extract_words_with_coordinates(word_annotations) = <<>> THEN NoMedications
    ELSE Clustered(_cluster_words_into_rows(_extract_words_with_coordinates(word_annotations)),
                   key, replies)

(***************************************************************************)
(* FloorStockParser._parse_with_groq.  What the LLM answers is input of    *)
(* the environment: reply is the list under "medications" of the JSON it   *)
(* sent, or None when the request or the decoding failed.                  *)
(***************************************************************************)
IV_MEDICATIONS ==
    <<"cefazolin", "ceftriaxone", "ampicillin", "vancomycin", "piperacillin", "meropenem",
      "ertapenem", "ceftazidime", "cefepime", "gentamicin", "tobramycin", "azithromycin",
      "levofloxacin", "ciprofloxacin", "metronidazole", "normal saline", "lactated ringers",
      "dextrose", "sodium chloride", "potassium chloride", "magnesium sulfate">>

invalid_names ==
    {"device", "med", "description", "pick", "amount", "max", "current", "area", "actual",
     "page", "report", "time", "group", "run"}

validate_medication(med) ==
    /\ TruthyStr(med, "name")
    /\ Len(med.name) >= 2
    /\ lower(med.name) \notin invalid_names

NormalizedForm(name_lower, form_lower) ==
    IF form_lower \in {"mini bag", "ivpb", "mini-bag"} THEN "bag"
    ELSE IF /\ \E i \in 1..Len(IV_MEDICATIONS) : Contains(name_lower, IV_MEDICATIONS[i])
            /\ form_lower \in {"injection", "vial"}
    THEN "bag"
    ELSE IF form_lower \in {"ea", "each"}
    THEN (IF Contains(name_lower, "patch") THEN "patch"
          ELSE IF Contains(name_lower, "bag") THEN "bag"
          ELSE "packet")
    ELSE IF form_lower = "suspension" THEN "liquid"
    ELSE form_lower
_normalize_form(name, form) == NormalizedForm(lower(name), lower(form))

\* the loop of _parse_llm_json_response over data['medications']
NormalizedMed(med) ==
    IF TruthyStr(med, "form") THEN With(med, "form", _normalize_form(med.name, med.form))
    ELSE med
Normalized(validated) == [i \in 1..Len(validated) |-> NormalizedMed(validated[i])]
_parse_llm_json_response(reply) == Normalized(SelectSeq(reply, validate_medication))

\* one medication of _validate_and_correct_pick_amounts
CorrectedPick(med) ==
    IF /\ TruthyInt(med, "pick_amount")
       /\ TruthyInt(med, "max")
       /\ TruthyInt(med, "current_amount")
       /\ Abs(med.pick_amount - (med.max - med.current_amount)) > 5
    THEN With(med, "pick_amount", med.max - med.current_amount)
    ELSE med
_validate_and_correct_pick_amounts(medications) ==
    [i \in 1..Len(medications) |-> CorrectedPick(medications[i])]

_parse_with_groq(reply) ==
    IF reply = None THEN <<>>
    ELSE _validate_and_correct_pick_amounts(_parse_llm_json_response(reply))

(***************************************************************************)
(* The pages the parser is given.  A page shows the table header, a device *)
(* line, and one medication: the lines of its description and its numbers. *)
(* The OCR gives the text of the page line by line and, when the page was  *)
(* read with coordinates, an annotation per word, the first annotation     *)
(* being the whole text.                                                   *)
(***************************************************************************)
MaxParses == 1

Devices == <<"8E-1", "9W-2", "6E-2_CICU">>
Descriptions ==
    << <<"gabapentin", "(NEURONTIN)", "100 mg capsule">>,
       <<"acetaminophen", "(TYLENOL)", "325 mg tablet">>,
       <<"Med Description">> >>
NumberLines ==
    << <<25, 30, 5>>, <<18>>, <<10, 20, 0>>, <<12, 30, 5>>, <<>>, <<250, 300, 50>> >>

Scenes ==
    {<<device, description, numbers>> :
        device \in Range(Devices), description \in Range(Descriptions),
        numbers \in Range(NumberLines)}

\* the OCR text of a scene
TextOf(device, description, numbers) ==
    join(<<device>> \o description \o [i \in 1..Len(numbers) |-> str(numbers[i])], "\n") \o "\n"

\* the annotation of a word whose box has its corner at (x, y)
Annotation(description, x, y, width) ==
    [description |-> description,
     vertices |-> <<<<x, y>>, <<x + width, y>>, <<x + width, y + 10>>, <<x, y + 10>>>>]

HeaderAnnotations ==
    <<Annotation("Device", 0, 100, 40), Annotation("Med", 100, 100, 40),
      Annotation("Description", 150, 100, 80), Annotation("Pick", 300, 100, 40),
      Annotation("Amount", 350, 100, 40), Annotation("Max", 450, 100, 40),
      Annotation("Current", 550, 100, 60)>>
NumberColumns == <<320, 460, 570>>
DescriptionAnnotations(words) ==
    [i \in 1..Len(words) |-> Annotation(words[i], 100 + 24 * i, 180, 20)]
NumberAnnotations(numbers) ==
    [i \in 1..Len(numbers) |-> Annotation(str(numbers[i]), NumberColumns[i], 182, 20)]

\* the word annotations of a scene
AnnotationsOf(device, description, numbers) ==
    <<Annotation(TextOf(device, description, numbers), 0, 0, 640)>>
    \o HeaderAnnotations
    \o <<Annotation(device, 10, 140, 30)>>
    \o DescriptionAnnotations(split(join(description, " ")))
    \o NumberAnnotations(numbers)

\* the word annotations of a scene photographed below the table header
HeaderlessAnnotationsOf(device, description, numbers) ==
    <<Annotation(TextOf(device, description, numbers), 0, 0, 640)>>
    \o <<Annotation(device, 10, 140, 30)>>
    \o DescriptionAnnotations(split(join(description, " ")))
    \o NumberAnnotations(numbers)

\* what the LLM may answer for a row of the scene: nothing, the medication
\* of the row, or a medication the page does not show
RowReplies(description) ==
    {None,
     [name |-> description[1], strength |-> "100 mg", form |-> "capsule"],
     [name |-> "zolpidem", strength |-> "5 mg", form |-> "tablet"]}
RowRepliesOf(description) == {<<>>} \cup {<<reply>> : reply \in RowReplies(description)}

\* an answer of the LLM that assigns the three numbers of the page itself
AmountReplies(device, description, numbers) ==
    IF Len(numbers) = 3
    THEN {<<[name |-> description[1], strength |-> "100 mg", form |-> "capsule",
             floor |-> device, pick_amount |-> numbers[1], max |-> numbers[2],
             current_amount |-> numbers[3]]>>}
    ELSE {}

\* an answer of the LLM that gives the floor as a number
NumberFloorReplies(description, numbers) ==
    {<<("floor:int" :> 8) @@ [name |-> description[1], strength |-> "100 mg",
                              form |-> "capsule", numbers |-> numbers]>>}

\* what the LLM may answer for the text of the scene
GroqReplies(device, description, numbers) ==
    {None,
     <<[name |-> description[1], strength |-> "100 mg", form |-> "capsule",
        floor |-> device, numbers |-> numbers]>>,
     <<[name |-> "zolpidem", strength |-> "5 mg", form |-> "tablet",
        floor |-> device, numbers |-> numbers]>>}
    \cup AmountReplies(device, description, numbers)
    \cup NumberFloorReplies(description, numbers)
    \cup {<<[name |-> "zolpidem", strength |-> "5 mg", form |-> "tablet",
              floor |-> device, numbers |-> numbers],
             [name |-> description[1], strength |-> "100 mg", form |-> "capsule",
              floor |-> device, numbers |-> numbers]>>}

\* A page with two devices: the first device and the lines of gabapentin
\* with its numbers, then the second device and the lines of acetaminophen
\* with its numbers.
DoubleNumberLines == << <<25, 30, 5>>, <<18>> >>
DoubleScenes ==
    {<<first, first_numbers, second, second_numbers>> :
        first \in Range(Devices), first_numbers \in Range(DoubleNumberLines),
        second \in Range(Devices), second_numbers \in Range(DoubleNumberLines)}
    \ {scene \in (Range(Devices) \X Range(DoubleNumberLines)
                  \X Range(Devices) \X Range(DoubleNumberLines)) : scene[1] = scene[3]}
DoubleText(scene) ==
    TextOf(scene[1], Descriptions[1], scene[2]) \o TextOf(scene[3], Descriptions[2], scene[4])

\* the annotations of a description and of its numbers in the row at y
DescriptionRow(words, y) ==
    [i \in 1..Len(words) |-> Annotation(words[i], 100 + 24 * i, y, 20)]
NumberRow(numbers, y) ==
    [i \in 1..Len(numbers) |-> Annotation(str(numbers[i]), NumberColumns[i], y + 2, 20)]

\* the word annotations of a page with two devices: two data rows
DoublePage(scene) ==
    <<Annotation(DoubleText(scene), 0, 0, 640)>>
    \o HeaderAnnotations
    \o <<Annotation(scene[1], 10, 140, 30)>>
    \o DescriptionRow(split(join(Descriptions[1], " ")), 180)
    \o NumberRow(scene[2], 180)
    \o <<Annotation(scene[3], 10, 220, 30)>>
    \o DescriptionRow(split(join(Descriptions[2], " ")), 260)
    \o NumberRow(scene[4], 260)

\* what the LLM may answer for the two rows of such a page, in the order of
\* the requests: for each row nothing, or the medication of the row
DoubleRowReplies ==
    {<<>>}
    \cup {<<first, second>> :
            first \in {None, [name |-> Descriptions[1][1], strength |-> "100 mg",
                              form |-> "capsule"]},
            second \in {None, [name |-> Descriptions[2][1], strength |-> "325 mg",
                               form |-> "tablet"]}}

(***************************************************************************)
(* FloorStockParser as a state machine: __init__, then calls of parse.     *)
(***************************************************************************)
\* __init__: self.use_llm_verification = use_llm_verification and
\* self.api_key is not None; no call of parse yet.  The lookup is not used.
ParserInit ==
    /\ preload = "none"
    /\ _global_lookup = None
    /\ instances = <<>>
    /\ caller = <<>>
    /\ constructing = <<>>
    /\ got = <<>>
    /\ scan_lines = <<>>
    /\ scan_i = 0
    /\ scan_st = <<>>
    /\ scan_out = None
    /\ method = "none"
    /\ method_arg = <<>>
    /\ method_result = <<>>
    /\ reruns = 0
    /\ reparsed = <<>>
    /\ reraised = FALSE
    /\ api_key \in BOOLEAN
    /\ use_llm_verification \in BOOLEAN
    /\ use_llm_verification => api_key
    /\ parses = 0
    /\ page_text = ""
    /\ page_annotations = <<>>
    /\ row_replies = <<>>
    /\ groq_reply = None
    /\ strategy = "none"
    /\ found_medications = <<>>
    /\ validated_records = <<>>
    /\ raised = FALSE
    /\ parsed = <<>>
    /\ images = 0
    /\ task = <<>>
    /\ futures = <<>>
    /\ results = <<>>
    /\ completed = <<>>
    /\ pc = "idle"
    /\ deduplicated = <<>>
    /\ status = 0
    /\ phase = "loading"
    /\ rows = <<>>
    /\ location_db = <<>>
    /\ search_index = <<>>
    /\ sorted_index = <<>>
    /\ args = <<>>
    /\ returned = None
    /\ via = "none"
    /\ cache = <<>>

\* parse is called with t and page; replies and reply are what the LLM
\* answers in the course of the call
Call(t, page, replies, reply) ==
    /\ parses' = parses + 1
    /\ page_text' = t
    /\ page_annotations' = page
    /\ row_replies' = replies
    /\ groq_reply' = reply
    /\ UNCHANGED <<api_key, use_llm_verification>>
    /\ UNCHANGED lookupVars
    /\ UNCHANGED batchVars
    /\ UNCHANGED laterVars

\* Steps 3 and 4 of parse
Final(found, t) == FilterHeaders(_validate_against_source(found, t))

\* Steps 3 and 4 of parse on the medications found: parse returns, or the
\* exception of _validate_against_source leaves parse, which catches nothing
Validate(found, t) ==
    IF ValidationRaises(found, t)
    THEN /\ raised' = TRUE
         /\ validated_records' = <<>>
         /\ parsed' = <<>>
    ELSE /\ raised' = FALSE
         /\ validated_records' = _validate_against_source(found, t)
         /\ parsed' = FilterHeaders(validated_records')

\* the row clustering asked the LLM as often as it answered
Clusters(page, replies, rows_found) ==
    IF page = <<>> THEN replies = <<>> ELSE rows_found.asked = Len(replies)
RowsFound(page, replies, key) ==
    IF page = <<>> THEN NoMedications ELSE _parse_with_row_clustering(page, key, replies)

\* parse returning whatever the row clustering found, the empty list too
ReturnRowsEvenEmpty(t, page, replies, rows_found) ==
    /\ Clusters(page, replies, rows_found)
    /\ strategy' = "rows"
    /\ found_medications' = rows_found.medications
    /\ validated_records' = <<>>
    /\ raised' = FALSE
    /\ parsed' = rows_found.medications
    /\ Call(t, page, replies, None)

\* parse returns what the row clustering found
ReturnRows(t, page, replies, rows_found) ==
    /\ Clusters(page, replies, rows_found)
    /\ rows_found.medications # <<>>
    /\ strategy' = "rows"
    /\ found_medications' = rows_found.medications
    /\ validated_records' = <<>>
    /\ raised' = FALSE
    /\ parsed' = rows_found.medications
    /\ Call(t, page, replies, None)
ParseRows(t, page, replies) ==
    /\ parses < MaxParses
    /\ page # <<>>
    /\ ReturnRows(t, page, replies, RowsFound(page, replies, api_key))

\* the row clustering found nothing and the LLM parsed the text
ReturnLLM(t, page, replies, reply, rows_found, groq_found) ==
    /\ Clusters(page, replies, rows_found)
    /\ rows_found.medications = <<>>
    /\ groq_found # <<>>
    /\ strategy' = "llm"
    /\ found_medications' = _identify_numbers_by_formula(groq_found)
    /\ Validate(found_medications', t)
    /\ Call(t, page, replies, reply)
ParseLLM(t, page, replies, reply) ==
    /\ parses < MaxParses
    /\ use_llm_verification
    /\ ReturnLLM(t, page, replies, reply, RowsFound(page, replies, api_key),
                 _parse_with_groq(reply))

\* the row clustering found nothing, the LLM is not used or found nothing
ReturnLines(t, page, replies, reply, rows_found, groq_found) ==
    /\ Clusters(page, replies, rows_found)
    /\ rows_found.medications = <<>>
    /\ groq_found = <<>>
    /\ strategy' = "lines"
    /\ found_medications' = _parse_bd_table_enhanced(t)
    /\ Validate(found_medications', t)
    /\ Call(t, page, replies, reply)
ParseLines(t, page, replies, reply) ==
    /\ parses < MaxParses
    /\ ~use_llm_verification => reply = None
    /\ ReturnLines(t, page, replies, reply, RowsFound(page, replies, api_key),
                   IF use_llm_verification THEN _parse_with_groq(reply) ELSE <<>>)

\* the page of a scene as parse receives it, with or without coordinates
PageOf(scene) == AnnotationsOf(scene[1], scene[2], scene[3])
HeaderlessPageOf(scene) == HeaderlessAnnotationsOf(scene[1], scene[2], scene[3])
Pages(scene) == {<<>>, PageOf(scene), HeaderlessPageOf(scene)}
SceneText(scene) == TextOf(scene[1], scene[2], scene[3])

ParserNext ==
    \/ \E scene \in Scenes :
          \E replies \in RowRepliesOf(scene[2]), page \in Pages(scene) :
             ParseRows(SceneText(scene), page, replies)
    \/ \E scene \in Scenes :
          \E replies \in RowRepliesOf(scene[2]), page \in Pages(scene),
             reply \in GroqReplies(scene[1], scene[2], scene[3]) :
             ParseLLM(SceneText(scene), page, replies, reply)
    \/ \E scene \in Scenes :
          \E replies \in RowRepliesOf(scene[2]), page \in Pages(scene),
             reply \in GroqReplies(scene[1], scene[2], scene[3]) :
             ParseLines(SceneText(scene), page, replies, reply)
    \/ \E scene \in DoubleScenes :
          \E replies \in DoubleRowReplies :
             ParseRows(DoubleText(scene), DoublePage(scene), replies)
    \/ \E scene \in DoubleScenes :
          \E replies \in DoubleRowReplies, page \in {<<>>, DoublePage(scene)} :
             ParseLines(DoubleText(scene), page, replies, None)

\* the parser alone
ParserSpec == ParserInit /\ [][ParserNext]_vars

(***************************************************************************)
(* A second call of parse on the same parser, with the text and the word   *)
(* annotations of the first call, the LLM answering as it did.  parse      *)
(* assigns no attribute of the parser and changes neither argument.        *)
(***************************************************************************)
\* Steps 2 to 4 of parse: the medications of the strategies that read the
\* text, validated
TextStrategies(t, groq_found) ==
    IF ValidationRaises(IF groq_found # <<>> THEN _identify_numbers_by_formula(groq_found)
                        ELSE _parse_bd_table_enhanced(t), t)
    THEN [raised |-> TRUE, medications |-> <<>>]
    ELSE [raised |-> FALSE,
          medications |-> Final(IF groq_found # <<>>
                                THEN _identify_numbers_by_formula(groq_found)
                                ELSE _parse_bd_table_enhanced(t), t)]
\* what a call of parse gives
ParseOutcome(t, page, replies, reply, rows_found) ==
    IF rows_found.medications # <<>>
    THEN [raised |-> FALSE, medications |-> rows_found.medications]
    ELSE TextStrategies(t, IF use_llm_verification THEN _parse_with_groq(reply) ELSE <<>>)

\* a second call that finds the records of the first still there
ReparseKeeping(outcome) ==
    /\ parses > 0
    /\ reruns = 0
    /\ reruns' = 1
    /\ reparsed' = parsed \o outcome.medications
    /\ reraised' = outcome.raised
    /\ UNCHANGED <<lookupVars, parserVars, batchVars, stepVars, scanVars, singletonVars>>

\* the second call returns, or its exception leaves parse
Reparse(outcome) ==
    /\ parses > 0
    /\ reruns = 0
    /\ reruns' = 1
    /\ reparsed' = outcome.medications
    /\ reraised' = outcome.raised
    /\ UNCHANGED <<lookupVars, parserVars, batchVars, stepVars, scanVars, singletonVars>>

RerunNext ==
    \/ ParserNext
    \/ Reparse(ParseOutcome(page_text, page_annotations, row_replies, groq_reply,
                            RowsFound(page_annotations, row_replies, api_key)))

\* the parser called twice with the same arguments
RerunSpec == ParserInit /\ [][RerunNext]_vars

(***************************************************************************)
(* docling_server.parse_documents_parallel in mode floor_stock.  A value   *)
(* that is None under the key k of a medication is written as the key      *)
(* "k:none"; a key that is absent is absent.                                *)
(***************************************************************************)
MaxImages == 6

HasNone(med, k) == (k \o ":none") \in DOMAIN med
\* med.get(k, default) of a value that is not None
Get(med, k, default) == IF k \in DOMAIN med THEN med[k] ELSE default

\* key = f"{name}|{strength}|{form}" of the lower-cased, stripped fields
MedKey(med) ==
    strip(lower(Get(med, "name", ""))) \o "|" \o strip(lower(Get(med, "strength", "")))
    \o "|" \o strip(lower(Get(med, "form", "")))

\* all_meds: the medications of the successful results, in the order of the
\* sorted results
all_meds(sorted_results) ==
    Concat([i \in 1..Len(sorted_results) |->
               IF sorted_results[i].success THEN sorted_results[i].medications ELSE <<>>])

\* the loop that fills med_groups
RECURSIVE GroupsFrom(_, _, _)
GroupsFrom(meds, i, groups) ==
    IF i > Len(meds) THEN groups
    ELSE GroupsFrom(meds, i + 1,
                    DictSet(groups, MedKey(meds[i]),
                            Append(DictGetOr(groups, MedKey(meds[i]), <<>>), meds[i])))
med_groups(meds) == GroupsFrom(meds, 1, <<>>)
\* floor = med.get('floor', 'Unknown').strip() of a floor that is None
GroupingRaises(meds) == \E i \in 1..Len(meds) : HasNone(meds[i], "floor")

\* {'floor': ..., 'amount': ...} of a medication that is alone in its group
OwnBreakdown(med) ==
    IF HasNone(med, "pick_amount")
    THEN ("amount:none" :> TRUE) @@ [floor |-> Get(med, "floor", "Unknown")]
    ELSE [floor |-> Get(med, "floor", "Unknown"), amount |-> Get(med, "pick_amount", 0)]

\* floor_counts and total_pick of a group
RECURSIVE FloorCounts(_, _, _)
FloorCounts(group, i, floor_counts) ==
    IF i > Len(group) THEN floor_counts
    ELSE FloorCounts(group, i + 1,
                     DictSet(floor_counts, Get(group[i], "floor", "Unknown"),
                             DictGetOr(floor_counts, Get(group[i], "floor", "Unknown"), 0)
                               + Get(group[i], "pick_amount", 0)))
TotalPick(group) == Sum([i \in 1..Len(group) |-> Get(group[i], "pick_amount", 0)])
BreakdownList(floor_counts) ==
    [i \in 1..Len(floor_counts) |-> [floor |-> floor_counts[i][1], amount |-> floor_counts[i][2]]]

\* the record of a group of several medications
MergedWith(group, floor_counts) ==
    With(IF Len(floor_counts) > 1
         THEN With(With(With(group[1], "pick_amount", TotalPick(group)),
                        "notes", "Combined from " \o str(Len(group)) \o " entries"),
                   "floor", "Multiple Locations")
         ELSE With(With(group[1], "pick_amount", TotalPick(group)),
                   "notes", "Combined from " \o str(Len(group)) \o " entries"),
         "floor_breakdown", BreakdownList(floor_counts))
\* the record of a group
MergedGroup(group) ==
    IF Len(group) = 1 THEN With(group[1], "floor_breakdown", <<OwnBreakdown(group[1])>>)
    ELSE MergedWith(group, FloorCounts(group, 1, <<>>))
\* total_pick += amt of an amount that is None
MergeRaises(groups) ==
    \E i \in 1..Len(groups) :
        /\ Len(groups[i][2]) > 1
        /\ \E j \in 1..Len(groups[i][2]) : HasNone(groups[i][2][j], "pick_amount")
Deduplicated(groups) == [i \in 1..Len(groups) |-> MergedGroup(groups[i][2])]

\* the pick location the lookup gives the medication, or UNKNOWN
WithLocation(med, found) ==
    IF found
    THEN With(With(med, "pick_location", "A1"), "pick_location_desc", "Shelf A1")
    ELSE With(With(med, "pick_location", "UNKNOWN"), "pick_location_desc", "Location not found")

\* the results as they were appended
UnsortedResults(rs) == rs
\* results.sort(key=lambda x: x['index'])
SortedResults(rs) == SortedBy(rs, "index")

\* what process_single_image returns for the image i
Succeeded(i, medications) == [success |-> TRUE, medications |-> medications, index |-> i - 1]
Failed(i, error) == [success |-> FALSE, error |-> error, medications |-> <<>>, index |-> i - 1]

\* The pages of a batch.  The first shows gabapentin on 8E-1, alone, with
\* acetaminophen, or on a page without device line, whose record has the
\* floor None.  The second fails or shows gabapentin again: on another floor,
\* on both floors, without a pick amount, or with the pick amount None.  The
\* third fails or shows acetaminophen, the pages after it show acetaminophen.
Gabapentin(name, floor, pick_amount) ==
    [name |-> name, strength |-> "100 mg", form |-> "capsule", floor |-> floor,
     pick_amount |-> pick_amount]
Acetaminophen(floor, pick_amount) ==
    [name |-> "acetaminophen", strength |-> "325 mg", form |-> "tablet", floor |-> floor,
     pick_amount |-> pick_amount]
PageResults(i) ==
    IF i = 1
    THEN {Succeeded(i, <<Gabapentin("gabapentin", "8E-1", 18)>>),
          Succeeded(i, <<Gabapentin("gabapentin", "8E-1", 18), Acetaminophen("9W-2", 25)>>),
          Succeeded(i, <<("floor:none" :> TRUE)
                         @@ [name |-> "gabapentin", strength |-> "100 mg", form |-> "capsule",
                             pick_amount |-> 18]>>)}
    ELSE IF i = 2
    THEN {Failed(i, "OCR failed: Unknown error"),
          Succeeded(i, <<Gabapentin("Gabapentin", "9W-2", 25)>>),
          Succeeded(i, <<Gabapentin("gabapentin", "8E-1", 12),
                         Gabapentin("Gabapentin ", "9W-2", 25)>>),
          Succeeded(i, <<[name |-> "gabapentin", strength |-> "100 mg", form |-> "capsule",
                          floor |-> "8E-1"]>>),
          Succeeded(i, <<("pick_amount:none" :> TRUE)
                         @@ [name |-> "gabapentin", strength |-> "100 mg", form |-> "capsule",
                             floor |-> "8E-1"]>>)}
    ELSE IF i = 3
    THEN {Failed(i, "boom"), Succeeded(i, <<Acetaminophen("8E-1", 10)>>)}
    ELSE {Succeeded(i, <<Acetaminophen("8E-1", 10)>>)}

\* the request arrived with its images
BatchInit ==
    /\ preload = "none"
    /\ _global_lookup = None
    /\ instances = <<>>
    /\ caller = <<>>
    /\ constructing = <<>>
    /\ got = <<>>
    /\ scan_lines = <<>>
    /\ scan_i = 0
    /\ scan_st = <<>>
    /\ scan_out = None
    /\ method = "none"
    /\ method_arg = <<>>
    /\ method_result = <<>>
    /\ reruns = 0
    /\ reparsed = <<>>
    /\ reraised = FALSE
    /\ images \in 1..MaxImages
    /\ task = [i \in 1..images |-> "new"]
    /\ futures = [i \in 1..images |-> None]
    /\ results = <<>>
    /\ completed = <<>>
    /\ pc = "submit"
    /\ deduplicated = <<>>
    /\ status = 0
    /\ api_key = FALSE
    /\ use_llm_verification = FALSE
    /\ parses = 0
    /\ page_text = ""
    /\ page_annotations = <<>>
    /\ row_replies = <<>>
    /\ groq_reply = None
    /\ strategy = "none"
    /\ found_medications = <<>>
    /\ validated_records = <<>>
    /\ raised = FALSE
    /\ parsed = <<>>
    /\ phase = "loading"
    /\ rows = <<>>
    /\ location_db = <<>>
    /\ search_index = <<>>
    /\ sorted_index = <<>>
    /\ args = <<>>
    /\ returned = None
    /\ via = "none"
    /\ cache = <<>>

\* max_workers = min(len(images), 5)
max_workers == Min({images, 5})
\* the page tasks a worker thread of the executor is running
InProgress == {i \in 1..images : task[i] = "running"}
\* the page tasks whose result the request thread has appended
Collected == {results[k].index + 1 : k \in 1..Len(results)}

\* executor.submit(process_single_image, img, i) for the next image
Submit(i) ==
    /\ pc = "submit"
    /\ task[i] = "new"
    /\ \A j \in 1..(i - 1) : task[j] # "new"
    /\ task' = [task EXCEPT ![i] = "queued"]
    /\ pc' = IF i = images THEN "collect" ELSE "submit"
    /\ UNCHANGED <<images, futures, results, completed, deduplicated, status>>
    /\ UNCHANGED <<lookupVars, parserVars>>
    /\ UNCHANGED laterVars

\* a start that does not look at the number of worker threads
StartUnbounded(i) ==
    /\ task[i] = "queued"
    /\ \A j \in 1..(i - 1) : task[j] # "queued"
    /\ task' = [task EXCEPT ![i] = "running"]
    /\ UNCHANGED <<images, futures, results, completed, pc, deduplicated, status>>
    /\ UNCHANGED <<lookupVars, parserVars>>
    /\ UNCHANGED laterVars

\* a worker thread of the executor, which has max_workers of them, takes the
\* first task of the queue
Start(i) ==
    /\ task[i] = "queued"
    /\ \A j \in 1..(i - 1) : task[j] # "queued"
    /\ Cardinality(InProgress) < max_workers
    /\ task' = [task EXCEPT ![i] = "running"]
    /\ UNCHANGED <<images, futures, results, completed, pc, deduplicated, status>>
    /\ UNCHANGED <<lookupVars, parserVars>>
    /\ UNCHANGED laterVars

\* process_single_image returns: a result, or the error it caught
Finish(i, result) ==
    /\ task[i] = "running"
    /\ task' = [task EXCEPT ![i] = "finished"]
    /\ futures' = [futures EXCEPT ![i] = result]
    /\ UNCHANGED <<images, results, completed, pc, deduplicated, status>>
    /\ UNCHANGED <<lookupVars, parserVars>>
    /\ UNCHANGED laterVars

\* one round of the loop over as_completed
Collect(i) ==
    /\ pc = "collect"
    /\ task[i] = "finished"
    /\ i \notin Collected
    /\ results' = Append(results, futures[i])
    /\ completed' = Append(completed, i - 1)
    /\ UNCHANGED <<images, task, futures, pc, deduplicated, status>>
    /\ UNCHANGED <<lookupVars, parserVars>>
    /\ UNCHANGED laterVars

\* the pick locations of the merged medications
Located(merged, located) ==
    [i \in 1..Len(merged) |-> WithLocation(merged[i], i \in located)]

\* the response of the deduplication: an exception gives the status 500
Answer(meds, groups, located) ==
    IF GroupingRaises(meds) \/ MergeRaises(groups)
    THEN /\ status' = 500
         /\ pc' = "failed"
         /\ UNCHANGED <<results, deduplicated>>
    ELSE /\ status' = 200
         /\ pc' = "done"
         /\ deduplicated' = Located(Deduplicated(groups), located)
         /\ results' = <<Succeeded(1, deduplicated')>>
Respond(meds, located) == Answer(meds, med_groups(meds), located)

\* as_completed is exhausted and the executor has shut down: the sort, the
\* deduplication, the pick locations and the response
Reduce(located) ==
    /\ pc = "collect"
    /\ Collected = 1..images
    /\ Respond(all_meds(SortedResults(results)), located)
    /\ UNCHANGED <<images, task, futures, completed>>
    /\ UNCHANGED <<lookupVars, parserVars>>
    /\ UNCHANGED laterVars

BatchNext ==
    \/ \E i \in 1..images : Submit(i)
    \/ \E i \in 1..images : Start(i)
    \/ \E i \in 1..images : \E result \in PageResults(i) : Finish(i, result)
    \/ \E i \in 1..images : Collect(i)
    \/ \E located \in SUBSET (1..2) : Reduce(located)

\* one request to /parse-documents-parallel
BatchSpec == BatchInit /\ [][BatchNext]_vars

(***************************************************************************)
(* FloorStockParser._deduplicate_medications                               *)
(***************************************************************************)
\* the same strength, whatever the floor
SameStrength(med, other_med) == Get(med, "strength", None) = Get(other_med, "strength", None)
\* med.get('floor') == other_med.get('floor') and
\* med.get('strength') == other_med.get('strength')
SameFloorStrength(med, other_med) ==
    /\ Get(med, "floor", None) = Get(other_med, "floor", None)
    /\ Get(med, "strength", None) = Get(other_med, "strength", None)

\* the inner loop over other_med from index j, 1-based: whether med i is a
\* fragment, and skip_indices after the loop
RECURSIVE FragmentScan(_, _, _, _)
FragmentScan(medications, i, j, skip_indices) ==
    IF j > Len(medications) THEN [is_fragment |-> FALSE, skip_indices |-> skip_indices]
    ELSE IF i = j \/ j \in skip_indices THEN FragmentScan(medications, i, j + 1, skip_indices)
    ELSE IF ~SameFloorStrength(medications[i], medications[j])
    THEN FragmentScan(medications, i, j + 1, skip_indices)
    ELSE IF Contains(lower(medications[j].name), lower(medications[i].name))
    THEN [is_fragment |-> TRUE, skip_indices |-> skip_indices \cup {i}]
    ELSE IF Contains(lower(medications[i].name), lower(medications[j].name))
    THEN FragmentScan(medications, i, j + 1, skip_indices \cup {j})
    ELSE FragmentScan(medications, i, j + 1, skip_indices)

\* the outer loop from index i
RECURSIVE DeduplicateFrom(_, _, _, _)
DeduplicateScanned(medications, i, scan, kept) ==
    DeduplicateFrom(medications, i + 1, scan.skip_indices,
                    IF scan.is_fragment THEN kept ELSE Append(kept, medications[i]))
DeduplicateFrom(medications, i, skip_indices, kept) ==
    IF i > Len(medications) THEN kept
    ELSE IF i \in skip_indices THEN DeduplicateFrom(medications, i + 1, skip_indices, kept)
    ELSE DeduplicateScanned(medications, i, FragmentScan(medications, i, 1, skip_indices), kept)

_deduplicate_medications(medications) == DeduplicateFrom(medications, 1, {}, <<>>)

(***************************************************************************)
(* The steps of the extraction, each called on its own with an argument    *)
(* drawn from a small set.                                                 *)
(***************************************************************************)
MaxWords == 3

\* the method called, its argument and what it returned
Applied(name, argument, value) ==
    /\ method = "none"
    /\ method' = name
    /\ method_arg' = argument
    /\ method_result' = value
    /\ UNCHANGED <<lookupVars, parserVars, batchVars, rerunVars, scanVars, singletonVars>>

StepInit ==
    /\ preload = "none"
    /\ _global_lookup = None
    /\ instances = <<>>
    /\ caller = <<>>
    /\ constructing = <<>>
    /\ got = <<>>
    /\ scan_lines = <<>>
    /\ scan_i = 0
    /\ scan_st = <<>>
    /\ scan_out = None
    /\ method = "none"
    /\ method_arg = <<>>
    /\ method_result = <<>>
    /\ reruns = 0
    /\ reparsed = <<>>
    /\ reraised = FALSE
    /\ images = 0
    /\ task = <<>>
    /\ futures = <<>>
    /\ results = <<>>
    /\ completed = <<>>
    /\ pc = "idle"
    /\ deduplicated = <<>>
    /\ status = 0
    /\ api_key = FALSE
    /\ use_llm_verification = FALSE
    /\ parses = 0
    /\ page_text = ""
    /\ page_annotations = <<>>
    /\ row_replies = <<>>
    /\ groq_reply = None
    /\ strategy = "none"
    /\ found_medications = <<>>
    /\ validated_records = <<>>
    /\ raised = FALSE
    /\ parsed = <<>>
    /\ phase = "loading"
    /\ rows = <<>>
    /\ location_db = <<>>
    /\ search_index = <<>>
    /\ sorted_index = <<>>
    /\ args = <<>>
    /\ returned = None
    /\ via = "none"
    /\ cache = <<>>

\* the sequences over S of at most n elements
RECURSIVE SeqsUpTo(_, _)
SeqsUpTo(S, n) ==
    IF n = 0 THEN {<<>>}
    ELSE SeqsUpTo(S, n - 1) \cup {Append(q, e) : q \in SeqsUpTo(S, n - 1), e \in S}

\* words with the centre of their box
WordYs == {100, 110, 120, 140}
WordXs == {10, 50}
Tokens == {[text |-> "mg", x |-> x, y |-> y] : x \in WordXs, y \in WordYs}

\* self._cluster_words_into_rows(words)
ClusterWords(words) == Applied("_cluster_words_into_rows", words, _cluster_words_into_rows(words))

\* the numbers of a record: every list of three to MaxNumbers of a few
\* values, and lists of up to MaxLong numbers far apart from each other in
\* which only the first three and three of the last four fit the formula
MaxNumbers == 4
MaxLong == 13
NumberValues == {0, 10, 12, 30, 50}
ShortLists == {numbers \in SeqsUpTo(NumberValues, MaxNumbers) : Len(numbers) >= 3}
Spread ==
    <<100, 900, 1000, 7500, 40000, 90000, 200000, 500000, 1200000, 3000000, 7000000,
      16000000, 40000000>>
LateTriple(n) ==
    [i \in 1..n |-> IF i = n THEN 8000 ELSE IF i = n - 3 THEN 20000
                    ELSE IF i = n - 2 THEN 12000 ELSE Spread[i]]
LongLists == {LateTriple(n) : n \in 7..MaxLong}
NumberLists == ShortLists \cup LongLists

\* the medications handed to _identify_numbers_by_formula: without numbers,
\* with a pick amount already, with one number, with numbers that fit the
\* formula in several ways and with numbers that do not fit it
MaxMeds == 3
FormulaMeds ==
    {[name |-> "heparin"],
     [name |-> "insulin", pick_amount |-> 7],
     [name |-> "lactulose", numbers |-> <<4>>],
     [name |-> "nifedipine", numbers |-> <<50, 10, 12>>],
     [name |-> "pantoprazole", numbers |-> <<12, 30, 18, 60, 48>>],
     [name |-> "sodium bicarbonate", numbers |-> <<3, 100, 97, 15, 40, 25>>]}

IdentifyColumns(numbers) ==
    Applied("_identify_columns_by_formula", numbers, _identify_columns_by_formula(numbers))
IdentifyNumbers(medications) ==
    Applied("_identify_numbers_by_formula", medications,
            _identify_numbers_by_formula(medications))

\* the medications handed to _deduplicate_medications
MaxFragments == 4
Fragments ==
    {[name |-> name, strength |-> place[2], floor |-> place[1]] :
        name \in {"sodium", "Sodium Bicarbonate", "bicarbonate"},
        place \in {<<"8E-1", "8.4%">>, <<"9W-2", "8.4%">>, <<"8E-1", "650 mg">>}}
Deduplicate(medications) ==
    Applied("_deduplicate_medications", medications, _deduplicate_medications(medications))

\* the rows handed to _find_header_row: every list of up to MaxShortRows of
\* a few rows, and lists of up to MaxHeaderRows rows of data with a wrapped
\* header in the second row and a header row anywhere
MaxShortRows == 3
MaxHeaderRows == 42
RowOf(texts) == [i \in 1..Len(texts) |-> [text |-> texts[i], x |-> 100 * i, y |-> 0]]
HeaderRows ==
    {RowOf(<<"Pick", "Amount">>), RowOf(<<"Current">>), RowOf(<<"Max", "5", "10">>),
     RowOf(<<"gabapentin", "5">>), RowOf(<<"Med", "Description:">>)}
LongRows(n, k) ==
    [i \in 1..n |-> IF i = k THEN RowOf(<<"Pick", "Amount">>)
                    ELSE IF i = 2 THEN RowOf(<<"Current">>)
                    ELSE RowOf(<<"gabapentin", "5">>)]
RowLists ==
    SeqsUpTo(HeaderRows, MaxShortRows)
    \cup {LongRows(n, k) : n \in 38..MaxHeaderRows, k \in 0..MaxHeaderRows}
FindHeaderRow(word_rows) ==
    Applied("_find_header_row", word_rows, _find_header_row(word_rows))

StepNext ==
    \/ \E word_rows \in RowLists : FindHeaderRow(word_rows)
    \/ \E medications \in SeqsUpTo(Fragments, MaxFragments) : Deduplicate(medications)
    \/ \E words \in SeqsUpTo(Tokens, MaxWords) : ClusterWords(words)
    \/ \E numbers \in NumberLists : IdentifyColumns(numbers)
    \/ \E medications \in SeqsUpTo(FormulaMeds, MaxMeds) : IdentifyNumbers(medications)

\* the steps of the extraction one by one
StepSpec == StepInit /\ [][StepNext]_vars

(***************************************************************************)
(* The line scan of _parse_bd_table_enhanced, one iteration of its while   *)
(* loop at a time, on texts of at most MaxLines lines after the device     *)
(***************************************************************************)
MaxLines == 4
ScanLineSet == {"magnesium", "sulfate 2 g bag", "5", "12", "pick", "g"}
ScanTexts ==
    {join(device \o described, "\n") :
        device \in {<<>>, <<"8E-1">>}, described \in SeqsUpTo(ScanLineSet, MaxLines)}

ScanInit ==
    /\ preload = "none"
    /\ _global_lookup = None
    /\ instances = <<>>
    /\ caller = <<>>
    /\ constructing = <<>>
    /\ got = <<>>
    /\ scan_lines \in {SplitLines(text) : text \in ScanTexts}
    /\ scan_i = 0
    /\ scan_st = ScanStart
    /\ scan_out = None
    /\ method = "none"
    /\ method_arg = <<>>
    /\ method_result = <<>>
    /\ reruns = 0
    /\ reparsed = <<>>
    /\ reraised = FALSE
    /\ images = 0
    /\ task = <<>>
    /\ futures = <<>>
    /\ results = <<>>
    /\ completed = <<>>
    /\ pc = "idle"
    /\ deduplicated = <<>>
    /\ status = 0
    /\ api_key = FALSE
    /\ use_llm_verification = FALSE
    /\ parses = 0
    /\ page_text = ""
    /\ page_annotations = <<>>
    /\ row_replies = <<>>
    /\ groq_reply = None
    /\ strategy = "none"
    /\ found_medications = <<>>
    /\ validated_records = <<>>
    /\ raised = FALSE
    /\ parsed = <<>>
    /\ phase = "loading"
    /\ rows = <<>>
    /\ location_db = <<>>
    /\ search_index = <<>>
    /\ sorted_index = <<>>
    /\ args = <<>>
    /\ returned = None
    /\ via = "none"
    /\ cache = <<>>

\* one iteration of the while loop
ScanStep ==
    /\ scan_out = None
    /\ scan_i < Len(scan_lines)
    /\ scan_i' = scan_i + 1
    /\ scan_st' = ScanLine(strip(scan_lines[scan_i + 1]), scan_st)
    /\ UNCHANGED <<scan_lines, scan_out>>
    /\ UNCHANGED <<lookupVars, parserVars, batchVars, rerunVars, stepVars, singletonVars>>

\* after the loop: the last medication is processed and the list returned
ScanReturn ==
    /\ scan_out = None
    /\ scan_i = Len(scan_lines)
    /\ scan_out' = <<ScanEnd(scan_st)>>
    /\ UNCHANGED <<scan_lines, scan_i, scan_st>>
    /\ UNCHANGED <<lookupVars, parserVars, batchVars, rerunVars, stepVars, singletonVars>>

ScanNext == ScanStep \/ ScanReturn

ScanSpec == ScanInit /\ [][ScanNext]_vars

(***************************************************************************)
(* medication_location_lookup.get_location_lookup, called by the request   *)
(* threads of the server.  Started by its __main__ block the server calls   *)
(* it once before it serves requests; imported as a module it does not.     *)
(* The k-th MedicationLocationLookup() is the instance k: "filling" while   *)
(* __init__ and _load_locations run, "ready" after.                         *)
(***************************************************************************)
MaxCallers == 3

\* the module is imported, _global_lookup = None, and no request has come
SingletonInit ==
    /\ preload \in {"none", "pending"}
    /\ _global_lookup = None
    /\ instances = <<>>
    /\ caller = [c \in 1..MaxCallers |-> "idle"]
    /\ constructing = [c \in 1..MaxCallers |-> 0]
    /\ got = [c \in 1..MaxCallers |-> None]
    /\ scan_lines = <<>>
    /\ scan_i = 0
    /\ scan_st = <<>>
    /\ scan_out = None
    /\ method = "none"
    /\ method_arg = <<>>
    /\ method_result = <<>>
    /\ reruns = 0
    /\ reparsed = <<>>
    /\ reraised = FALSE
    /\ images = 0
    /\ task = <<>>
    /\ futures = <<>>
    /\ results = <<>>
    /\ completed = <<>>
    /\ pc = "idle"
    /\ deduplicated = <<>>
    /\ status = 0
    /\ api_key = FALSE
    /\ use_llm_verification = FALSE
    /\ parses = 0
    /\ page_text = ""
    /\ page_annotations = <<>>
    /\ row_replies = <<>>
    /\ groq_reply = None
    /\ strategy = "none"
    /\ found_medications = <<>>
    /\ validated_records = <<>>
    /\ raised = FALSE
    /\ parsed = <<>>
    /\ phase = "loading"
    /\ rows = <<>>
    /\ location_db = <<>>
    /\ search_index = <<>>
    /\ sorted_index = <<>>
    /\ args = <<>>
    /\ returned = None
    /\ via = "none"
    /\ cache = <<>>

othersUnchanged == UNCHANGED <<lookupVars, parserVars, batchVars, rerunVars, stepVars, scanVars>>

\* location_lookup_preload = get_location_lookup() of __main__, before
\* app.run: no request thread exists yet
Preload ==
    /\ preload = "pending"
    /\ preload' = "done"
    /\ instances' = Append(instances, "ready")
    /\ _global_lookup' = <<Len(instances) + 1>>
    /\ UNCHANGED <<caller, constructing, got>>
    /\ othersUnchanged

\* if _global_lookup is None
CheckGlobal(c) ==
    /\ preload # "pending"
    /\ caller[c] = "idle"
    /\ caller' = [caller EXCEPT ![c] = IF _global_lookup = None THEN "construct" ELSE "return"]
    /\ UNCHANGED <<preload, _global_lookup, instances, constructing, got>>
    /\ othersUnchanged

\* MedicationLocationLookup(): __init__ sets the empty tables
Construct(c) ==
    /\ caller[c] = "construct"
    /\ instances' = Append(instances, "filling")
    /\ constructing' = [constructing EXCEPT ![c] = Len(instances) + 1]
    /\ caller' = [caller EXCEPT ![c] = "load"]
    /\ UNCHANGED <<preload, _global_lookup, got>>
    /\ othersUnchanged

\* self._load_locations() has filled the tables
Load(c) ==
    /\ caller[c] = "load"
    /\ instances' = [instances EXCEPT ![constructing[c]] = "ready"]
    /\ caller' = [caller EXCEPT ![c] = "assign"]
    /\ UNCHANGED <<preload, _global_lookup, constructing, got>>
    /\ othersUnchanged

\* _global_lookup = the instance the constructor returned
AssignGlobal(c) ==
    /\ caller[c] = "assign"
    /\ _global_lookup' = <<constructing[c]>>
    /\ caller' = [caller EXCEPT ![c] = "return"]
    /\ UNCHANGED <<preload, instances, constructing, got>>
    /\ othersUnchanged

\* return _global_lookup: the caller has the instance the global holds now,
\* and reads its location_db
ReturnGlobal(c) ==
    /\ caller[c] = "return"
    /\ got' = [got EXCEPT ![c] = <<_global_lookup[1], instances[_global_lookup[1]]>>]
    /\ caller' = [caller EXCEPT ![c] = "returned"]
    /\ UNCHANGED <<preload, _global_lookup, instances, constructing>>
    /\ othersUnchanged

SingletonNext ==
    \/ Preload
    \/ \E c \in 1..MaxCallers : CheckGlobal(c)
    \/ \E c \in 1..MaxCallers : Construct(c)
    \/ \E c \in 1..MaxCallers : Load(c)
    \/ \E c \in 1..MaxCallers : AssignGlobal(c)
    \/ \E c \in 1..MaxCallers : ReturnGlobal(c)

\* the request threads of one server process and their first lookups
SingletonSpec == SingletonInit /\ [][SingletonNext]_vars

(***************************************************************************)
(* Properties of the lookup                                                *)
(***************************************************************************)
\* a call of find_location has returned
Called == phase = "ready" /\ args # <<>>

\* the rows of the csv file that _load_locations stored, as
\* <<normalized name, location_code>>, in file order
Stored == [i \in 1..Len(SelectSeq(rows, LAMBDA row : ~Skipped(row))) |->
             <<Normalize(strip(SelectSeq(rows, LAMBDA row : ~Skipped(row))[i][1])),
               strip(SelectSeq(rows, LAMBDA row : ~Skipped(row))[i][2])>>]

\* the normalized full string of the arguments of the call
QueryString == Normalize(FullMed(args[1], args[2], args[3]))

\* the numeric tokens of a string
NumsOf(s) == {w \in Range(KeyWords(upper(s))) : IsNumericToken(w)}
\* the significant non-numeric words of a string
WordsOf(s) == {w \in Range(KeyWords(upper(s))) : IsSignificant(w) /\ ~IsNumericToken(w)}

\* C2: a call that is not for a fridge item and whose strength numbers are
\* not all among the numeric tokens of any stored row returns None.
C2_MismatchedStrengthNotFound ==
    (/\ Called
     /\ args[1] # ""
     /\ ~is_fridge(args[1], args[3])
     /\ NumsOf(args[2]) # {}
     /\ \A i \in DOMAIN Stored : ~(NumsOf(args[2]) \subseteq NumsOf(Stored[i][1])))
    => returned = None

\* C4 as stated: a call whose normalized full string equals the normalized
\* name of a stored row returns the location_code of that row, for every
\* such row.
C4_ExactMatchEveryRow ==
    Called => \A i \in DOMAIN Stored :
                 Stored[i][1] = QueryString => returned # None /\ returned[1] = Stored[i][2]

\* C4 amended: a call with a non-empty medication_name that is not for a
\* fridge item and whose normalized full string equals the normalized name
\* of a stored row returns the location_code of the last such row of the file.
C4_ExactMatchLastRow ==
    (/\ Called
     /\ args[1] # ""
     /\ ~is_fridge(args[1], args[3])
     /\ \E i \in DOMAIN Stored : Stored[i][1] = QueryString)
    => /\ returned # None
       /\ returned[1] = Stored[Max({i \in DOMAIN Stored : Stored[i][1] = QueryString})][2]

\* two rows with the same normalized name and different codes are stored, and
\* a call for that name has returned
C4_Witness ==
    /\ Called
    /\ via = "exact"
    /\ \E i, j \in DOMAIN Stored :
          i < j /\ Stored[i][1] = QueryString /\ Stored[j][1] = QueryString
                /\ Stored[i][2] # Stored[j][2]

\* C5: a call whose non-empty medication_name contains a keyword of the
\* refrigerated roster, in any case, returns location_code FRIDGE, whatever
\* the strength, the form and the stored rows.
C5_FridgeOverride ==
    (/\ Called
     /\ args[1] # ""
     /\ \E k \in fridge_keywords : Contains(upper(args[1]), k))
    => returned # None /\ returned[1] = "FRIDGE"

\* a fridge call returned while the table holds an exact match for it with
\* another code
C5_Witness ==
    /\ Called
    /\ \E k \in fridge_keywords : Contains(upper(args[1]), k)
    /\ \E i \in DOMAIN Stored : Stored[i][1] = QueryString /\ Stored[i][2] # "FRIDGE"
    /\ returned[1] = "FRIDGE"

\* C6: when the sorted-key subset strategy returns, the value is that of a
\* stored entry whose significant non-numeric words are exactly those of the
\* query and whose numeric tokens include every numeric token of the query.
C6_SubsetOnlyIfContained ==
    via = "sorted_subset" =>
        \E i \in 1..Len(location_db) :
            /\ returned = location_db[i][2]
            /\ WordsOf(location_db[i][1]) = WordsOf(QueryString)
            /\ NumsOf(QueryString) \subseteq NumsOf(location_db[i][1])

\* the subset strategy returned for a query with fewer numbers than the entry
C6_Witness ==
    /\ via = "sorted_subset"
    /\ \E i \in 1..Len(location_db) :
          returned = location_db[i][2] /\ NumsOf(QueryString) # NumsOf(location_db[i][1])

\* q and e hold the same words, in any order and any number of times
SameWords(q, e) == Range(KeyWords(q)) = Range(KeyWords(e))

C8_NeverGuesses ==
    Called =>
        /\ \/ returned = None
           \/ returned[1] = "FRIDGE"
           \/ \E i \in DOMAIN Stored : returned[1] = Stored[i][2]
        /\ args[1] = "" => returned = None

\* a call found no row although rows are stored, and another returned a row
C8_Witness ==
    /\ Called
    /\ Stored # <<>>
    /\ args[1] # ""
    /\ via \in {"fuzzy_name", "fuzzy_full", "sorted_exact"}
    /\ \E i \in DOMAIN Stored : returned[1] = Stored[i][2]

(***************************************************************************)
(* Properties of the parser                                                *)
(***************************************************************************)
\* a call of parse has returned
Parsed == parses > 0

\* the scenes that show a medication: a description of three lines
Medications == {scene \in Scenes : Len(scene[2]) = 3}

\* C1: every record parse returns, whichever strategy produced it, has a
\* name that passes _fuzzy_match_in_text against the text of the page.
C1_ReturnedNamesInSource ==
    Parsed => \A i \in 1..Len(parsed) : _fuzzy_match_in_text(parsed[i].name, page_text)

\* a record has pick_amount, max and current_amount
Populated(med) == {"pick_amount", "max", "current_amount"} \subseteq DOMAIN med

\* C3: every record parse returns that has pick_amount, max and
\* current_amount, zero included, satisfies
\* |pick_amount - (max - current_amount)| <= 5 or carries a warning.
C3_FormulaOrWarning ==
    Parsed =>
        \A i \in 1..Len(parsed) :
            Populated(parsed[i]) =>
                \/ Abs(parsed[i].pick_amount - (parsed[i].max - parsed[i].current_amount)) <= 5
                \/ "warning" \in DOMAIN parsed[i]

\* parse returned one record, of the floor and with the pick amount given
OneRecord(floor, pick_amount) ==
    /\ Len(parsed) = 1
    /\ "floor" \in DOMAIN parsed[1]
    /\ parsed[1].floor = floor
    /\ "pick_amount" \in DOMAIN parsed[1]
    /\ parsed[1].pick_amount = pick_amount

\* C9: for a page that is a device line, the description lines of one
\* medication and its three numbers p, m, c with p = m - c, the line scan
\* yields exactly one record, with the device as floor and pick_amount = p.
C9_ScenarioA ==
    \A scene \in Medications :
        /\ strategy = "lines"
        /\ page_text = SceneText(scene)
        /\ Len(scene[3]) = 3
        /\ scene[3][1] = scene[3][2] - scene[3][3]
        => OneRecord(scene[1], scene[3][1])

\* the record i of parsed has the pick amount n and no warning
PickedWithoutWarning(i, n) ==
    /\ "pick_amount" \in DOMAIN parsed[i]
    /\ parsed[i].pick_amount = n
    /\ "warning" \notin DOMAIN parsed[i]

\* The first half of C10: a record the LLM gave a one-element numbers list
\* leaves _identify_numbers_by_formula with that number as pick_amount and
\* no warning.
SingleNumberList ==
    strategy = "llm" =>
        \A i \in 1..Len(parsed) :
            \A j \in 1..Len(groq_reply) :
                groq_reply[j].name = parsed[i].name /\ Len(groq_reply[j].numbers) = 1
                => PickedWithoutWarning(i, groq_reply[j].numbers[1])

\* The second half of C10: the line scan of a text in which the description
\* lines of the medication are followed by the single number line n.
SingleNumberLine ==
    \A scene \in Medications :
        strategy = "lines" /\ page_text = SceneText(scene) /\ Len(scene[3]) = 1
        => Len(parsed) = 1 /\ PickedWithoutWarning(1, scene[3][1])

\* C10: a medication with exactly one standalone number n gets
\* pick_amount = n and no warning, both when n reaches
\* _identify_numbers_by_formula as a one-element numbers list and when parse
\* scans a text in which the description lines are followed by the line n.
C10_SingleNumber == SingleNumberList /\ SingleNumberLine
\* the record i of parsed is the medication named, of the floor given
OfFloor(i, name, floor) ==
    StartsWith(parsed[i].name, name) => "floor" \in DOMAIN parsed[i] /\ parsed[i].floor = floor

\* C11: every record the line scan emits carries the floor of the most
\* recent device line before its first description line; the device line
\* that follows the numbers of the first medication of a page does not
\* change the floor of that medication.
C11_FloorOfPrecedingDevice ==
    \A scene \in DoubleScenes :
        strategy = "lines" /\ page_text = DoubleText(scene)
        => \A i \in 1..Len(parsed) :
              /\ OfFloor(i, Descriptions[1][1], scene[1])
              /\ OfFloor(i, Descriptions[2][1], scene[3])

\* C12: every floor the line scan takes from a device line passes the floor
\* pattern of _validate_against_source, so that no record of the line scan
\* whose name is in the text is dropped by the validation.
C12_DeviceFloorsPass ==
    strategy = "lines" =>
        \A i \in 1..Len(found_medications) :
            /\ re_match_all(FloorPattern, found_medications[i].floor)
            /\ _fuzzy_match_in_text(found_medications[i].name, page_text)
                 => \E j \in 1..Len(validated_records) :
                       validated_records[j] = found_medications[i]

\* the answer j of the LLM to _parse_with_groq is about the record i of
\* parsed and gives the three amounts
Answers(i, j) == groq_reply[j].name = parsed[i].name /\ Populated(groq_reply[j])

\* C13: a record whose three amounts do not satisfy the formula is in the
\* output with a warning and with the pick_amount that was read; no
\* pick_amount the LLM gave is replaced by max - current without a warning.
C13_NeverSilentlyCorrected ==
    strategy = "llm" =>
        \A i \in 1..Len(parsed) :
            \A j \in 1..Len(groq_reply) :
                Answers(i, j) =>
                    /\ parsed[i].pick_amount = groq_reply[j].pick_amount
                    /\ ~FormulaHolds(groq_reply[j].pick_amount, groq_reply[j].max,
                                     groq_reply[j].current_amount)
                         => "warning" \in DOMAIN parsed[i]

\* the name of med is found in the text of the page
NameInSource(med) == _fuzzy_match_in_text(med.name, page_text)
\* med has no floor, an empty one, or one of the floor pattern
FloorWellFormed(med) ==
    "floor" \in DOMAIN med => med.floor = "" \/ re_match_all(FloorPattern, med.floor)

\* C14: what _validate_against_source returns is its input, in order and
\* with every field unchanged, without the records whose name is not found
\* in the text or whose non-empty floor is not of the floor pattern, and
\* without these only.
C14_ValidatorFilters ==
    (strategy \in {"llm", "lines"} /\ ~raised) =>
        validated_records
          = SelectSeq(found_medications, LAMBDA med : NameInSource(med) /\ FloorWellFormed(med))

\* the validator has kept one record and dropped another
C14_Witness ==
    /\ strategy \in {"llm", "lines"}
    /\ ~raised
    /\ validated_records # <<>>
    /\ Len(validated_records) < Len(found_medications)

\* C15: every record that leaves _validate_against_source has a pick_amount
\* from 0 to 200 or carries a warning.
C15_OutOfRangeFlagged ==
    (strategy \in {"llm", "lines"} /\ ~raised) =>
        \A i \in 1..Len(validated_records) :
            "pick_amount" \in DOMAIN validated_records[i] =>
                \/ 0 <= validated_records[i].pick_amount /\ validated_records[i].pick_amount <= 200
                \/ "warning" \in DOMAIN validated_records[i]

\* C16: no call of parse ends in an exception, whatever the text and
\* whatever the records the LLM gives, a floor that is not a string included.
C16_ParseNeverRaises == ~raised

\* every request of the call to the LLM failed
LlmFailed ==
    /\ groq_reply = None
    /\ \A k \in 1..Len(row_replies) : row_replies[k] = None

\* C17: a failure of the LLM removes no medication.  When every request
\* fails, parse returns what the line scan extracts from the text; when the
\* row clustering returns the records of a page with two data rows, both rows
\* have a record, also the row whose request failed.
C17_FailOpen ==
    /\ (Parsed /\ LlmFailed) =>
          /\ strategy = "lines"
          /\ parsed = Final(_parse_bd_table_enhanced(page_text), page_text)
    /\ \A scene \in DoubleScenes :
          (strategy = "rows" /\ page_text = DoubleText(scene)) => Len(parsed) = 2

\* the rows of words of the page that was parsed
WordRows == _cluster_words_into_rows(_extract_words_with_coordinates(page_annotations))
\* the page was read with coordinates and none of its rows is header-like
NoHeader == page_annotations # <<>> /\ _find_header_row(WordRows) = 0

\* C18: when no row of the page is header-like, _find_header_row gives None,
\* the row clustering gives the empty list without a request to the LLM, and
\* parse goes on with the strategies that read the text: its medications
\* are those of the LLM on the text or of the line scan.
C18_NoHeaderFallsBack ==
    (Parsed /\ NoHeader) =>
        /\ _parse_with_row_clustering(page_annotations, api_key, row_replies) = NoMedications
        /\ row_replies = <<>>
        /\ strategy \in {"llm", "lines"}
        /\ strategy = "llm" =>
              found_medications = _identify_numbers_by_formula(_parse_with_groq(groq_reply))
        /\ strategy = "lines" => found_medications = _parse_bd_table_enhanced(page_text)

\* parse of a page without a header row returned records of the line scan
C18_Witness ==
    /\ Parsed
    /\ NoHeader
    /\ strategy = "lines"
    /\ parsed # <<>>

(***************************************************************************)
(* Properties of the batch                                                 *)
(***************************************************************************)
\* the request has been answered
Answered200 == pc = "done"
BatchAnswered == pc \in {"done", "failed"}

\* the records of the pages that were processed successfully, in page order
PageRecords ==
    Concat([i \in 1..images |->
               IF futures[i] # None /\ futures[i].success THEN futures[i].medications
               ELSE <<>>])
\* the records of a list that have the key
OfKey(meds, key) == SelectSeq(meds, LAMBDA med : MedKey(med) = key)
PickAmounts(meds) == [i \in 1..Len(meds) |-> Get(meds[i], "pick_amount", 0)]
BreakdownAmounts(med) ==
    [i \in 1..Len(med.floor_breakdown) |-> med.floor_breakdown[i].amount]
BreakdownFloors(med) ==
    {med.floor_breakdown[i].floor : i \in 1..Len(med.floor_breakdown)}

\* the merged record is the sum of the page records of its key
SumOfPages(merged, of_pages) ==
    /\ Get(merged, "pick_amount", 0) = Sum(PickAmounts(of_pages))
    /\ Sum(BreakdownAmounts(merged)) = Get(merged, "pick_amount", 0)
    /\ Cardinality(BreakdownFloors(merged)) = Len(merged.floor_breakdown)
    /\ BreakdownFloors(merged)
         = {Get(of_pages[j], "floor", "Unknown") : j \in 1..Len(of_pages)}

\* C19: once the batch is answered, the merged output holds exactly one record
\* for each key (lower-cased name, strength and form) of the records of the
\* pages processed successfully; the pick_amount of that record is the sum of
\* the pick amounts of the page records of the key, the amounts of its
\* floor_breakdown sum to it, with one entry per distinct floor; the total of
\* the pick amounts is that of the page records.
C19_MergedByKey ==
    BatchAnswered =>
        \A key \in {MedKey(PageRecords[i]) : i \in 1..Len(PageRecords)} :
            /\ Len(OfKey(deduplicated, key)) = 1
            /\ (\A j \in 1..Len(OfKey(PageRecords, key)) :
                    ~HasNone(OfKey(PageRecords, key)[j], "pick_amount"))
                 => SumOfPages(OfKey(deduplicated, key)[1], OfKey(PageRecords, key))

\* the same of the batches whose deduplication ended without an exception
MergedByKeyWhenMerged == Answered200 => C19_MergedByKey

\* C20: never more than min(len(images), 5) page tasks are in progress, and
\* when the deduplication has run every page task has finished, with a
\* result or with the error it caught.
C20_BoundedThenReduce ==
    /\ Cardinality(InProgress) <= (IF images < 5 THEN images ELSE 5)
    /\ BatchAnswered =>
          \A i \in 1..images : task[i] = "finished" /\ futures[i] # None

\* five page tasks of six are in progress and the sixth waits in the queue
C20_Witness ==
    /\ images = 6
    /\ Cardinality(InProgress) = 5
    /\ task[6] = "queued"

Clustered_ == method = "_cluster_words_into_rows"
\* how often the word occurs in the list
Occurrences(words, word) == Cardinality({i \in 1..Len(words) : words[i] = word})
\* the least and the greatest y of a row
Top(row) == Min({row[i].y : i \in 1..Len(row)})
Bottom(row) == Max({row[i].y : i \in 1..Len(row)})

\* what holds of the rows whatever the tolerance is measured from: every
\* word is in exactly one row, the rows go from top to bottom, each row
\* goes from left to right, and no words give no rows
RowsOfAllWords ==
    /\ \A word \in Range(method_arg) :
          Occurrences(Concat(method_result), word) = Occurrences(method_arg, word)
    /\ Len(Concat(method_result)) = Len(method_arg)
    /\ \A r \in 1..Len(method_result) :
          /\ method_result[r] # <<>>
          /\ \A i \in 1..(Len(method_result[r]) - 1) : method_result[r][i].x <= method_result[r][i + 1].x
    /\ \A r \in 1..(Len(method_result) - 1) : Bottom(method_result[r]) <= Top(method_result[r + 1])
    /\ method_arg = <<>> => method_result = <<>>

\* C22 as the spec states it: two words that follow each other in the
\* order of their y and whose y differ by at most 15 are in the same row,
\* so that the first word of a row is more than 15 below the last word of
\* the row before.
C22_NeighboursShareRow ==
    Clustered_ =>
        /\ RowsOfAllWords
        /\ \A r \in 1..(Len(method_result) - 1) : Top(method_result[r + 1]) - Bottom(method_result[r]) > 15

\* C22 as the code has it: a row holds the words whose y is at most 15
\* below the y of its topmost word, the first word of the row in the order
\* of y; the next row starts at the first word that is further below.
C22_WithinFifteenOfRowTop ==
    Clustered_ =>
        /\ RowsOfAllWords
        /\ \A r \in 1..Len(method_result) : Bottom(method_result[r]) - Top(method_result[r]) <= 15
        /\ \A r \in 1..(Len(method_result) - 1) : Top(method_result[r + 1]) - Top(method_result[r]) > 15

\* three words at 100, 110 and 120: the third is within 15 of the second and
\* opens a new row
C22_Witness ==
    /\ Clustered_
    /\ Len(method_arg) = 3
    /\ Len(method_result) = 2
    /\ Top(method_result[2]) - Bottom(method_result[1]) <= 15

(***************************************************************************)
(* Properties of the line scan                                             *)
(***************************************************************************)
\* the line the next iteration of the while loop consumes
ScannedLine == strip(scan_lines[scan_i + 1])

\* the line reaches the check for the start of a medication: it is in the
\* table and neither empty, a device line, a header word nor a number
DescriptionLine(line, st) ==
    /\ line # ""
    /\ device_match(line) = ""
    /\ st.in_medication_table
    /\ ~(lower(line) \in skip_terms \/ Contains(line, "|"))
    /\ ~(isdigit(line) /\ Len(line) <= 3)

\* the iteration closes the current record: its lines are handed to
\* _parse_medication_block or given up, and do not go on being collected
ClosesRecord ==
    \/ scan_st'.medications # scan_st.medications
    \/ /\ scan_st.current_med_lines # <<>>
       /\ SubSeq(scan_st'.current_med_lines, 1, Len(scan_st.current_med_lines))
            # scan_st.current_med_lines

\* the scan has returned its medications
Scanned == scan_out # None

\* The scan is the loop of _parse_bd_table_enhanced: what it returns is what
\* the method returns for the text
ScanIsTheMethod == Scanned => scan_out[1] = _parse_bd_table_enhanced(join(scan_lines, "\n"))

\* C23: in the line scan a record is closed and a new one opened only at a
\* line that looks like the start of a medication name while the current
\* record has at least one number; the new record then starts with that line
\* alone.  A name-like line met while the current record has no number is
\* appended to the current description, and every description line (two
\* characters or more) goes either to the end of the current description or
\* to the start of the next, never to both and never to none.
C23_RecordBoundaries ==
    [][scan_i' = scan_i + 1 =>
        /\ ClosesRecord =>
             /\ DescriptionLine(ScannedLine, scan_st)
             /\ is_new_med_start(ScannedLine)
             /\ scan_st.numbers_seen > 0
             /\ scan_st'.current_med_lines = <<ScannedLine>>
             /\ scan_st'.numbers_seen = 0
        /\ (/\ DescriptionLine(ScannedLine, scan_st)
            /\ is_new_med_start(ScannedLine)
            /\ scan_st.numbers_seen = 0) =>
             /\ scan_st'.current_med_lines = Append(scan_st.current_med_lines, ScannedLine)
             /\ scan_st'.medications = scan_st.medications
        /\ (DescriptionLine(ScannedLine, scan_st) /\ Len(ScannedLine) >= 2) =>
             \/ scan_st'.current_med_lines = Append(scan_st.current_med_lines, ScannedLine)
             \/ /\ scan_st'.current_med_lines = <<ScannedLine>>
                /\ scan_st.current_med_lines # <<>>
        /\ ~DescriptionLine(ScannedLine, scan_st) =>
             scan_st'.current_med_lines = scan_st.current_med_lines]_vars

\* a name wrapped over two lines was kept as one record, closed by the next
\* name-like line after its number, which opened the next record
C23_Witness ==
    /\ scan_i = 5
    /\ scan_lines[2] = "magnesium"
    /\ scan_lines[3] = "sulfate 2 g bag"
    /\ Len(scan_st.medications) = 1
    /\ scan_st.current_med_lines = <<"magnesium">>
    /\ scan_st.numbers_seen = 0

(***************************************************************************)
(* Properties of the identification of pick, max and current               *)
(***************************************************************************)
ColumnsIdentified == method = "_identify_columns_by_formula"
NumbersIdentified == method = "_identify_numbers_by_formula"

\* the positions of three different numbers of a list that fit the formula
FittingPositions(numbers) ==
    {pos \in (1..Len(numbers)) \X (1..Len(numbers)) \X (1..Len(numbers)) :
        /\ pos[1] # pos[2] /\ pos[2] # pos[3] /\ pos[1] # pos[3]
        /\ Abs(numbers[pos[1]] - (numbers[pos[2]] - numbers[pos[3]])) <= 5}
FittingTriples(numbers) ==
    {<<numbers[pos[1]], numbers[pos[2]], numbers[pos[3]]>> : pos \in FittingPositions(numbers)}

\* a medication of three numbers or more none of which fit the formula
Misfit(med) ==
    /\ "numbers" \in DOMAIN med
    /\ Len(med.numbers) >= 3
    /\ FittingPositions(med.numbers) = {}

\* C24: for three numbers or more _identify_columns_by_formula returns a
\* triple (p, m, c) of three different positions with |p - (m - c)| <= 5
\* whenever there is one at any three different positions, and none only if
\* there is none; _identify_numbers_by_formula then takes the first three
\* numbers as pick, max and current and attaches the formula-mismatch warning.
C24_TripleWheneverOneFits ==
    /\ ColumnsIdentified =>
         IF FittingPositions(method_arg) # {}
         THEN method_result \in FittingTriples(method_arg)
         ELSE method_result = None
    /\ NumbersIdentified =>
         \A i \in 1..Len(method_arg) :
            Misfit(method_arg[i]) =>
               /\ method_result[i].pick_amount = method_arg[i].numbers[1]
               /\ method_result[i].max = method_arg[i].numbers[2]
               /\ method_result[i].current_amount = method_arg[i].numbers[3]
               /\ StartsWith(method_result[i].warning, "Formula mismatch!")

\* a triple was found that neither the consecutive nor the near-consecutive
\* positions hold
C24_Witness ==
    /\ ColumnsIdentified
    /\ Len(method_arg) = 4
    /\ CloseTriplets(method_arg) = <<>>
    /\ method_result # None

\* the medication without a fitting triple got its first three numbers
C24_MisfitWarned ==
    /\ NumbersIdentified
    /\ \E i \in 1..Len(method_arg) : Misfit(method_arg[i]) /\ "warning" \in DOMAIN method_result[i]

\* the valid triplets the search of _identify_columns_by_formula collected
Candidates(numbers) == ValidTriplets(numbers, CloseTriplets(numbers))
\* the index distance of a triplet: the larger step between its positions
IndexDistance(t) == Distance(t.positions)
\* the candidates no other candidate beats by a smaller index distance or,
\* at the same index distance, by a later starting position
Preferred(candidates) ==
    {t \in Range(candidates) :
        \A u \in Range(candidates) :
            /\ IndexDistance(u) >= IndexDistance(t)
            /\ IndexDistance(u) = IndexDistance(t) => u.positions[1] <= t.positions[1]}
PreferredReturned ==
    \E t \in Preferred(Candidates(method_arg)) : method_result = t.values

\* C25: when several valid triples were found, _identify_columns_by_formula
\* returns one with the smallest index distance and, among those, with the
\* latest starting position: a triple of a larger index distance is never
\* preferred to one of a smaller, whatever their starting positions.
C25_SmallestDistanceFirst ==
    (ColumnsIdentified /\ Len(Candidates(method_arg)) >= 2) => PreferredReturned

\* the score 50 - distance + 0.1 * i orders the triples like this as long as
\* no starting position is more than ten after another
SmallestDistanceFirstUpToEleven ==
    (ColumnsIdentified /\ Len(method_arg) <= 11 /\ Len(Candidates(method_arg)) >= 2)
        => PreferredReturned

\* several triples fit a list of eleven numbers or less
SeveralCandidates ==
    ColumnsIdentified /\ Len(method_arg) <= 11 /\ Len(Candidates(method_arg)) >= 2

\* the record has no pick amount after the first pass: none came with it and
\* it has no number to take one from
Needy(med) ==
    /\ "pick_amount" \notin DOMAIN med
    /\ "numbers" \notin DOMAIN med \/ med.numbers = <<>>
\* the pick, max and current of a record of the result
AmountsOf(med) == <<med.pick_amount, med.max, med.current_amount>>
\* the triples a record of the result adds to the pool: those that fit its
\* numbers, but for the one it kept
PooledBy(med) ==
    IF "numbers" \in DOMAIN med /\ Len(med.numbers) >= 3 /\ "warning" \notin DOMAIN med
    THEN FittingTriples(med.numbers) \ {AmountsOf(med)}
    ELSE {}
\* how often a triple is left in the pool when record i of the result is
\* reached: once for each record that pooled it, less the records before i
\* that took it
LeftFor(triple, i) ==
    Cardinality({j \in 1..Len(method_result) : triple \in PooledBy(method_result[j])})
    - Cardinality({j \in 1..(i - 1) :
                     /\ Needy(method_arg[j])
                     /\ "pick_amount" \in DOMAIN method_result[j]
                     /\ AmountsOf(method_result[j]) = triple})
Pool(i) ==
    {triple \in UNION {PooledBy(method_result[j]) : j \in 1..Len(method_result)} :
        LeftFor(triple, i) > 0}
\* the picks of the triples of a pool between two bounds
PicksWithin(pool, lo, hi) == {triple[1] : triple \in {t \in pool : lo <= t[1] /\ t[1] <= hi}}
\* the pick a record without pick amount is to receive from a pool
DuePick(pool) ==
    IF PicksWithin(pool, 10, 20) # {} THEN Min(PicksWithin(pool, 10, 20))
    ELSE IF PicksWithin(pool, 5, 30) # {} THEN Min(PicksWithin(pool, 5, 30))
    ELSE Min({triple[1] : triple \in pool})

Deduplicated_ == method = "_deduplicate_medications"

\* the name of the one is, but for case, part of the name of the other, and
\* floor and strength are the same
FragmentOf(med, other_med) ==
    /\ med.floor = other_med.floor
    /\ med.strength = other_med.strength
    /\ Contains(lower(other_med.name), lower(med.name))

\* kept holds some of the records of medications, in their order
RECURSIVE Subsequence(_, _)
Subsequence(kept, medications) ==
    IF kept = <<>> THEN TRUE
    ELSE IF medications = <<>> THEN FALSE
    ELSE IF Head(kept) = Head(medications) THEN Subsequence(Tail(kept), Tail(medications))
    ELSE Subsequence(kept, Tail(medications))

\* C27: after _deduplicate_medications no surviving record's name is a
\* case-insensitive substring of another survivor's name with the same floor
\* and strength (so of identical records one survives), every record of the
\* input is a survivor or has its name inside a survivor's of the same floor
\* and strength, the survivors are records of the input in their order, and
\* the method applied to its result changes nothing.
C27_FragmentsRemovedOnce ==
    Deduplicated_ =>
        /\ \A a, b \in 1..Len(method_result) :
              a # b => ~FragmentOf(method_result[a], method_result[b])
        /\ \A i \in 1..Len(method_arg) :
              \E a \in 1..Len(method_result) : FragmentOf(method_arg[i], method_result[a])
        /\ Subsequence(method_result, method_arg)
        /\ _deduplicate_medications(method_result) = method_result

\* a fragment in front of the full name and a copy of it behind were both
\* removed, and a record of another floor was kept
C27_Witness ==
    /\ Deduplicated_
    /\ Len(method_arg) = 4
    /\ method_arg[1] = method_arg[3]
    /\ method_arg[1].name = "sodium"
    /\ method_arg[4].floor # method_arg[1].floor
    /\ Len(method_result) = 2
    /\ method_result[1].name = "Sodium Bicarbonate"
    /\ method_result[2] = method_arg[4]

(***************************************************************************)
(* Properties of _find_header_row.  Rows are counted from 1 here, row 40   *)
(* is the source's index 39, and 0 stands for None.                        *)
(***************************************************************************)
HeaderSearched == method = "_find_header_row"

\* more than half of the tokens of the row are digit strings
MostlyNumeric(row) == 2 * Cardinality({w \in 1..Len(row) : isdigit(row[w].text)}) > Len(row)
\* the row holds a header phrase, or a token that is a header word
HasHeaderKeyword(row) ==
    \/ \E phrase \in {"pick amount", "pick actual", "current amount", "med description"} :
          Contains(lower(join([w \in 1..Len(row) |-> row[w].text], " ")), phrase)
    \/ \E w \in 1..Len(row) :
          lower(row[w].text) \in {"pick", "max", "current", "amount", "actual", "description",
                                  "device", "area"}

WithoutLocation(med) ==
    [k \in DOMAIN med \ {"pick_location", "pick_location_desc"} |-> med[k]]
\* the response is that of the deduplication of the records, grouped
ResponseOf(records, groups) ==
    IF GroupingRaises(records) \/ MergeRaises(groups) THEN status = 500
    ELSE /\ status = 200
         /\ [i \in 1..Len(deduplicated) |-> WithoutLocation(deduplicated[i])]
              = Deduplicated(groups)
ResponseOfRecords(records) == ResponseOf(records, med_groups(records))

\* C29: the response does not depend on the order in which the page tasks
\* completed: the status and the merged records, in their order, are those of
\* the page results taken in the order of the images, whatever the order the
\* results were appended in, and a page task that failed adds no record and
\* leaves the records of the other pages to be merged.
C29_CompletionOrderIrrelevant == BatchAnswered => ResponseOfRecords(PageRecords)

\* three pages of which the third completed first and the second failed: the
\* response holds the record of the first page before that of the third
C29_Witness ==
    /\ Answered200
    /\ images = 3
    /\ completed = <<2, 1, 0>>
    /\ ~futures[2].success
    /\ Len(deduplicated) = 2
    /\ deduplicated[1].name = "gabapentin"
    /\ deduplicated[2].name = "acetaminophen"

(***************************************************************************)
(* Properties of get_location_lookup                                       *)
(***************************************************************************)
\* the callers that have returned
Returned == {c \in 1..MaxCallers : got[c] # None}

\* no caller got an instance whose tables were still being filled
NeverPartlyFilled == \A c \in Returned : got[c][2] = "ready"

\* C30: under every interleaving of the callers of get_location_lookup the
\* table is loaded once: at most one MedicationLocationLookup is constructed,
\* every caller gets that instance, and no caller sees location_db or the
\* indices while they are being filled.
C30_ConstructedOnce ==
    /\ Len(instances) <= 1
    /\ \A c, d \in Returned : got[c][1] = got[d][1]
    /\ NeverPartlyFilled

\* the same of a server that was started by its __main__ block
ConstructedOnceWhenPreloaded == preload # "none" => C30_ConstructedOnce

\* two callers of a server without preload hold different instances
TwoInstancesReturned ==
    \E c, d \in Returned : got[c][1] # got[d][1]

====
